---- MODULE Spec2Model ----
(***************************************************************************)
(* Verification model of the execution API client (eth1_api.rs):           *)
(* the endpoint cursor, request_with_fallback and the Engine API dispatch. *)
(***************************************************************************)
EXTENDS Integers, Sequences, FiniteSets, TLC

\* ------------------------------------------------------------------ bounds

\* Longest list of endpoint URLs handed to Eth1Api::new.
MaxEndpoints == 2

\* Number of public API calls begun in one behaviour.
MaxRequests == 2

\* The largest number of logs an execution node returns for one filter.
MaxLogs == 2

\* TimingMetrics: the largest max_size, the largest duration (in nanoseconds)
\* and the number of updates explored.
MaxCapacity == 3

MaxDuration == 3

MaxUpdates == 4

\* The number of Block Processor operations explored.
MaxOperations == 2

\* The longest list of rewards in a slot report.
MaxRewards == 2

\* ------------------------------------------------------------- value sets

\* Endpoint URLs (a list may hold the same URL more than once).
Urls == {"A", "B"}

\* Tasks that call the client concurrently.
Tasks == {"t1", "t2"}

\* The task used when the dispatch of the Engine API methods is explored alone.
DispatchTasks == {"t1"}

None == "None"

\* types::nonstandard::Phase, in declaration order (Phase::CARDINALITY == 5).
Phases == <<"Phase0", "Altair", "Bellatrix", "Capella", "Deneb">>

PhaseSet == {Phases[i] : i \in 1..Len(Phases)}

\* The variants of ExecutionPayload, PayloadId and PayloadAttributes.
PostMergePhases == {"Bellatrix", "Capella", "Deneb"}

\* Opaque payload bodies, 8-byte payload ids and payload statuses.
Bodies == {"body1", "body2"}

\* Execution block hashes handed to forkchoice_updated as head, safe and finalized.
HeadHashes == {"head1", "head2"}

SafeHashes == {"safe1"}

FinalizedHashes == {"finalized1"}

Ids == {"id1", "id2"}

Statuses == {"VALID", "INVALID"}

SeqsUpTo(S, n) == UNION {[1..k -> S] : k \in 0..n}

IsSuffix(s, t) ==
    /\ Len(s) <= Len(t)
    /\ \A i \in 1..Len(s) : s[i] = t[Len(t) - Len(s) + i]

IsPrefix(s, t) ==
    /\ Len(s) <= Len(t)
    /\ \A i \in 1..Len(s) : s[i] = t[i]

\* ------------------------------------------------------------------ state

VARIABLES
    original,                \* Eth1Api.original: Vec<Url>
    endpoints,               \* Eth1Api.endpoints: what the IntoIter<Url> still holds
    endpoints_locked_by,     \* the task holding the guard of Eth1Api.endpoints, or None
    eth1_api_to_metrics_tx,  \* Eth1Api.eth1_api_to_metrics_tx is Some
    metrics,                 \* Eth1Api.metrics is Some
    eth1_api_errors_count,   \* metrics.eth1_api_errors_count
    eth1_api_reset_count,    \* metrics.eth1_api_reset_count
    live,                    \* the URLs whose execution node answers a call with a decodable result
    pc,                      \* per task: where its call stands
    args,                    \* per task: the public method called and its arguments
    call,                    \* per task: the JSON-RPC call of the request (method, params, ...)
    url,                     \* per task: the local `url` of request_with_fallback
    result,                  \* per task: what the public method returned
    trace,                   \* per task: what the current request did, in order
    start_cursor,            \* per task: the cursor when the public method was called
    alone,                   \* per task: no other request was in progress during this one
    stable,                  \* per task: no endpoint changed liveness during this one
    prev_result,             \* per task: the kind of the last result returned before it began
    last_result,             \* the kind of the result returned most recently
    started,                 \* number of public API calls begun
    times,                   \* TimingMetrics.times, oldest first, in nanoseconds
    total,                   \* TimingMetrics.total
    max_size,                \* TimingMetrics.max_size
    n_updates,               \* number of calls of TimingMetrics::update so far
    state_cache,             \* the entries of the state cache behind BlockProcessor.state_cache
    timing_metrics,          \* BlockProcessor.metrics: method name -> TimingMetrics
    op,                      \* the BlockProcessor operation made last: what it did and returned
    n_operations             \* number of BlockProcessor operations so far

vars == <<original, endpoints, endpoints_locked_by, eth1_api_to_metrics_tx, metrics,
          eth1_api_errors_count, eth1_api_reset_count, live, pc, args, call, url, result,
          trace, start_cursor, alone, stable, prev_result, last_result, started,
          times, total, max_size, n_updates, state_cache, timing_metrics, op,
          n_operations>>

\* The state of block_processor.rs, which the execution API client never touches.
block_processor_vars ==
    <<times, total, max_size, n_updates, state_cache, timing_metrics, op, n_operations>>

\* The state of the execution API client, which block_processor.rs never touches.
eth1_api_vars ==
    <<original, endpoints, endpoints_locked_by, eth1_api_to_metrics_tx, metrics,
      eth1_api_errors_count, eth1_api_reset_count, live, pc, args, call, url, result,
      trace, start_cursor, alone, stable, prev_result, last_result, started>>

config == <<original, eth1_api_to_metrics_tx, metrics>>

NoCall == [kind |-> None, method |-> None, params |-> <<>>, timeout |-> 0, phase |-> None]

NoResult == <<None, None>>

InProgress(t) == pc[t] \notin {"idle", "done"}

\* Eth1Api::new: `original` and the cursor both hold the URLs given; nothing is checked.
Init ==
    /\ original \in SeqsUpTo(Urls, MaxEndpoints)
    /\ endpoints = original
    /\ endpoints_locked_by = None
    /\ eth1_api_to_metrics_tx \in BOOLEAN
    /\ metrics \in BOOLEAN
    /\ eth1_api_errors_count = 0
    /\ eth1_api_reset_count = 0
    /\ live \in SUBSET Urls
    /\ pc = [t \in Tasks |-> "idle"]
    /\ args = [t \in Tasks |-> <<None>>]
    /\ call = [t \in Tasks |-> NoCall]
    /\ url = [t \in Tasks |-> None]
    /\ result = [t \in Tasks |-> NoResult]
    /\ trace = [t \in Tasks |-> <<>>]
    /\ start_cursor = [t \in Tasks |-> <<>>]
    /\ alone = [t \in Tasks |-> TRUE]
    /\ stable = [t \in Tasks |-> TRUE]
    /\ prev_result = [t \in Tasks |-> None]
    /\ last_result = None
    /\ started = 0
    /\ times = <<>>
    /\ total = 0
    /\ max_size = 0
    /\ n_updates = 0
    /\ state_cache = {}
    /\ timing_metrics = <<>>
    /\ op = [name |-> None]
    /\ n_operations = 0

\* --------------------------------------------------------------- helpers

Ok(v) == <<"Ok", v>>

Err(e) == <<"Err", e>>

\* The kind of a returned result: "Ok" or the error's name.
ResultKind(r) == IF r[1] = "Ok" THEN "Ok" ELSE r[2]

Event(kind, a, b) == <<kind, a, b>>

\* Position in `original` of the first URL the cursor holds.
CursorIndex == Len(original) - Len(endpoints) + 1

\* Mutant: the cursor is read at its far end.
current_endpoint_last == IF endpoints = <<>> THEN None ELSE endpoints[Len(endpoints)]

\* current_endpoint: endpoints.lock().await.as_slice().first().cloned()
current_endpoint == IF endpoints = <<>> THEN None ELSE endpoints[1]

\* Mutant: the peek returns the URL the cursor stands on.
peek_next_endpoint_first == IF endpoints = <<>> THEN None ELSE endpoints[1]

\* peek_next_endpoint: endpoints.lock().await.as_slice().get(1).cloned()
peek_next_endpoint == IF Len(endpoints) >= 2 THEN endpoints[2] ELSE None

\* Mutant: advancing drops the URL at the far end.
next_endpoint_back ==
    IF endpoints = <<>> THEN <<>> ELSE SubSeq(endpoints, 1, Len(endpoints) - 1)

\* Mutant: advancing drops two URLs.
next_endpoint_skips == IF Len(endpoints) <= 1 THEN <<>> ELSE Tail(Tail(endpoints))

\* next_endpoint: endpoints.lock().await.next(), the cursor it leaves behind
next_endpoint == IF endpoints = <<>> THEN <<>> ELSE Tail(endpoints)

\* Mutant: the cursor is left as it is.
reset_endpoints_stays == endpoints

\* Mutant: the cursor is emptied.
reset_endpoints_empty == <<>>

\* reset_endpoints: *endpoints.lock().await = original.clone().into_iter()
reset_endpoints == original

\* Mutant: the flag tells whether the cursor has moved off the first position.
fallback_connected_by_position(u) == CursorIndex > 1

\* sync_eth1_fallback_connected: self.original.first() != Some(&url)
fallback_connected(u) == original = <<>> \/ original[1] # u

\* Execution block numbers, and the block ids of get_block.
BlockNumbers == {1, 2}

BlockIds == {"number1", "hash1"}

\* web3 logs: the block number is optional; `data` stands for the log's topics
\* and data, which decode into a deposit event or do not.
Logs == [block_number : {<<"None">>} \cup {<<"Some", n>> : n \in BlockNumbers},
         data : {"deposit1", "deposit2", "malformed"}]

\* web3 blocks as returned for a block id: none, one that converts into an
\* Eth1Block, or one that does not.
Web3Blocks == {<<"None">>, <<"Some", "block1">>, <<"Some", "malformed">>}

\* What a live execution node may answer to a call, already decoded into the
\* type the caller asked for.
Responses(c) ==
    CASE c.kind = "forkchoice_updated" ->
            [payload_status : Statuses, payload_id : Ids \cup {None}]
      [] c.kind = "new_payload" -> Statuses
      [] c.kind = "get_payload" -> Bodies
      [] c.kind = "block" -> Web3Blocks
      [] c.kind = "logs" -> SeqsUpTo(Logs, MaxLogs)
      [] OTHER -> {"0x1"}

\* The variant of ExecutionPayload that the response type of a get_payload arm
\* converts into: EngineGetPayloadV1Response gives a Bellatrix payload,
\* EngineGetPayloadV2Response a Capella one, EngineGetPayloadV3Response a Deneb one.
EngineGetPayloadResponsePhase(method) ==
    CASE method = "engine_getPayloadV1" -> "Bellatrix"
      [] method = "engine_getPayloadV2" -> "Capella"
      [] method = "engine_getPayloadV3" -> "Deneb"

\* What the public method makes of the typed result of its call.
Convert(c, v) ==
    CASE c.kind = "forkchoice_updated" ->
            \* payload_id.map(PayloadId::<phase>)
            [payload_status |-> v.payload_status,
             payload_id |-> IF v.payload_id = None THEN None
                            ELSE <<c.phase, v.payload_id>>]
      [] c.kind = "get_payload" ->
            \* EngineGetPayloadV<n>Response -> WithBlobsAndMev<ExecutionPayload>
            [phase |-> EngineGetPayloadResponsePhase(c.method), payload |-> v]
      [] OTHER -> v

\* Eth1Block::try_from(block)
Eth1Block(block) ==
    IF block = "malformed" THEN Err("Eth1BlockError") ELSE Ok([eth1_block |-> block])

\* Mutant: every log converts.
DepositEvent_lenient(log) == Ok([deposit_event |-> log.data])

\* DepositEvent::try_from(log)
DepositEvent(log) ==
    IF log.data = "malformed" THEN Err("DepositEventError")
    ELSE Ok([deposit_event |-> log.data])

\* Mutant: the event takes the place of the events of its block number.
Push_replaces(deposit_events, block_number, deposit_event) ==
    [n \in DOMAIN deposit_events \cup {block_number} |->
        IF n = block_number THEN <<deposit_event>> ELSE deposit_events[n]]

\* deposit_events.entry(block_number).or_default().push(deposit_event)
Push(deposit_events, block_number, deposit_event) ==
    [n \in DOMAIN deposit_events \cup {block_number} |->
        IF n = block_number
        THEN Append(IF n \in DOMAIN deposit_events THEN deposit_events[n] ELSE <<>>,
                    deposit_event)
        ELSE deposit_events[n]]

\* The loop of get_deposit_events over the logs returned by the call.
RECURSIVE DepositEvents(_, _)
DepositEvents(logs, deposit_events) ==
    IF logs = <<>> THEN Ok(deposit_events)
    ELSE LET log == Head(logs)
         IN  IF log.block_number[1] = "None"
             THEN DepositEvents(Tail(logs), deposit_events)
             ELSE IF DepositEvent(log)[1] = "Err"
                  THEN DepositEvent(log)
                  ELSE DepositEvents(Tail(logs),
                                     Push(deposit_events, log.block_number[2],
                                          DepositEvent(log)[2]))

\* What the public method returns once request_with_fallback has returned
\* Ok(v): the conversions made after the `.await?`.
Converted(c, v) ==
    CASE c.kind = "block" ->
            \* .map(Eth1Block::try_from).transpose()
            IF v[1] = "None" THEN Ok(<<"None">>)
            ELSE IF Eth1Block(v[2])[1] = "Err" THEN Eth1Block(v[2])
                 ELSE Ok(<<"Some", Eth1Block(v[2])[2]>>)
      [] c.kind = "logs" -> DepositEvents(v, <<>>)
      [] OTHER -> Ok(Convert(c, v))

\* A task may begin another public API call.
MayBegin(t) ==
    /\ pc[t] = "idle"
    /\ started < MaxRequests

\* The public method called with arguments a enters request_with_fallback with call c.
Begin(t, a, c) ==
    /\ MayBegin(t)
    /\ args' = [args EXCEPT ![t] = a]
    /\ started' = started + 1
    /\ pc' = [pc EXCEPT ![t] = "current"]
    /\ call' = [call EXCEPT ![t] = c]
    /\ url' = [url EXCEPT ![t] = None]
    /\ result' = [result EXCEPT ![t] = NoResult]
    /\ trace' = [trace EXCEPT ![t] = <<>>]
    /\ start_cursor' = [start_cursor EXCEPT ![t] = endpoints]
    /\ alone' = [x \in Tasks |->
                    IF x = t THEN \A y \in Tasks \ {t} : ~InProgress(y)
                    ELSE IF InProgress(x) THEN FALSE ELSE alone[x]]
    /\ stable' = [stable EXCEPT ![t] = TRUE]
    /\ prev_result' = [prev_result EXCEPT ![t] = last_result]
    /\ UNCHANGED <<config, block_processor_vars, endpoints_locked_by,
                   endpoints, eth1_api_errors_count, eth1_api_reset_count,
                   live, last_result>>

\* The public method called with arguments a returns error e before it reaches
\* request_with_fallback.
Bail(t, a, e) ==
    /\ MayBegin(t)
    /\ args' = [args EXCEPT ![t] = a]
    /\ started' = started + 1
    /\ pc' = [pc EXCEPT ![t] = "done"]
    /\ call' = [call EXCEPT ![t] = NoCall]
    /\ url' = [url EXCEPT ![t] = None]
    /\ result' = [result EXCEPT ![t] = Err(e)]
    /\ trace' = [trace EXCEPT ![t] = <<>>]
    /\ start_cursor' = [start_cursor EXCEPT ![t] = endpoints]
    /\ prev_result' = [prev_result EXCEPT ![t] = last_result]
    /\ last_result' = e
    /\ UNCHANGED <<config, block_processor_vars, endpoints_locked_by,
                   endpoints, eth1_api_errors_count, eth1_api_reset_count,
                   live, alone, stable>>

\* ------------------------------------------------- request_with_fallback

\* Mutant: the guard of the cursor outlives the statement that took it.
EndpointsGuard_kept(t, held) ==
    /\ endpoints_locked_by = (IF held THEN t ELSE None)
    /\ endpoints_locked_by' = t

\* `self.endpoints.lock().await.<op>`: the guard is a temporary of the
\* statement. It is taken when the lock is free -- in this step, or in an
\* earlier step of the task (held) when the task had to wait for it -- used
\* for the one operation and dropped at the end of the statement.
EndpointsGuard(t, held) ==
    /\ endpoints_locked_by = (IF held THEN t ELSE None)
    /\ endpoints_locked_by' = None

\* `while let Some(url) = self.current_endpoint().await`, then the headers and
\* the call for that endpoint: the HTTP request is issued, or the error of
\* `self.auth.headers()?` / `request_from_api(..)?` is returned.
CurrentEndpointGuarded(t, held) ==
    /\ pc[t] = "current"
    /\ EndpointsGuard(t, held)
    /\ IF current_endpoint = None
       THEN /\ pc' = [pc EXCEPT ![t] = "reset"]
            /\ UNCHANGED <<url, result, trace, last_result>>
       ELSE \E headers_ok \in BOOLEAN :
              IF headers_ok
              THEN /\ url' = [url EXCEPT ![t] = current_endpoint]
                   /\ trace' = [trace EXCEPT ![t] =
                                  Append(@, Event("call", current_endpoint, CursorIndex))]
                   /\ pc' = [pc EXCEPT ![t] = "call"]
                   /\ UNCHANGED <<result, last_result>>
              ELSE /\ url' = [url EXCEPT ![t] = current_endpoint]
                   /\ result' = [result EXCEPT ![t] = Err("HeadersError")]
                   /\ last_result' = "HeadersError"
                   /\ pc' = [pc EXCEPT ![t] = "done"]
                   /\ UNCHANGED trace
    /\ UNCHANGED <<config, block_processor_vars, endpoints, eth1_api_errors_count, eth1_api_reset_count,
                   live, args, call, start_cursor, alone, stable, prev_result, started>>

\* Mutant: a failure of the headers is counted like a failed call.
CurrentEndpoint_counts_headers(t) ==
    /\ pc[t] = "current"
    /\ IF current_endpoint = None
       THEN /\ pc' = [pc EXCEPT ![t] = "reset"]
            /\ UNCHANGED <<url, result, trace, last_result, eth1_api_errors_count>>
       ELSE \E headers_ok \in BOOLEAN :
              IF headers_ok
              THEN /\ url' = [url EXCEPT ![t] = current_endpoint]
                   /\ trace' = [trace EXCEPT ![t] =
                                  Append(@, Event("call", current_endpoint, CursorIndex))]
                   /\ pc' = [pc EXCEPT ![t] = "call"]
                   /\ UNCHANGED <<result, last_result, eth1_api_errors_count>>
              ELSE /\ url' = [url EXCEPT ![t] = current_endpoint]
                   /\ result' = [result EXCEPT ![t] = Err("HeadersError")]
                   /\ last_result' = "HeadersError"
                   /\ eth1_api_errors_count' = eth1_api_errors_count + 1
                   /\ pc' = [pc EXCEPT ![t] = "done"]
                   /\ UNCHANGED trace
    /\ UNCHANGED <<config, block_processor_vars, endpoints_locked_by, endpoints,
                   eth1_api_reset_count, live, args, call, start_cursor, alone, stable,
                   prev_result, started>>

CurrentEndpoint(t) == CurrentEndpointGuarded(t, FALSE)

\* The call of task t is answered: the telemetry is sent and the result is
\* returned, with the cursor left holding `cursor`.
QueryAnswered(t, cursor) ==
    /\ pc[t] = "call"
    /\ url[t] \in live
    /\ endpoints' = cursor
    /\ \E v \in Responses(call[t]) :
         /\ result' = [result EXCEPT ![t] = Converted(call[t], v)]
         /\ last_result' = ResultKind(Converted(call[t], v))
         /\ trace' = [trace EXCEPT ![t] =
                        @ \o <<Event("ok", url[t], v)>>
                          \o (IF eth1_api_to_metrics_tx
                              THEN <<Event("telemetry", TRUE, fallback_connected(url[t]))>>
                              ELSE <<>>)]
    /\ pc' = [pc EXCEPT ![t] = "done"]
    /\ UNCHANGED <<config, block_processor_vars, endpoints_locked_by,
                   eth1_api_errors_count, eth1_api_reset_count,
                   live, args, call, url, start_cursor, alone, stable, prev_result, started>>

\* Mutant: a successful call puts the cursor back on the first endpoint.
QueryOk_rewinds(t) == QueryAnswered(t, original)

\* `Ok(result)`: the telemetry is sent, then the result is returned; the cursor
\* is not touched.
QueryOk(t) == QueryAnswered(t, endpoints)

\* Mutant: the error counter is left alone.
eth1_api_errors_count_inc_skipped == eth1_api_errors_count

\* if let Some(metrics) = self.metrics.as_ref() { metrics.eth1_api_errors_count.inc(); }
eth1_api_errors_count_inc ==
    IF metrics THEN eth1_api_errors_count + 1 ELSE eth1_api_errors_count

\* `Err(error)`: a transport error, a timeout or a result that does not decode.
\* The error counter is incremented before the next endpoint is peeked at.
QueryErr(t) ==
    /\ pc[t] = "call"
    /\ url[t] \notin live
    /\ eth1_api_errors_count' = eth1_api_errors_count_inc
    /\ trace' = [trace EXCEPT ![t] =
                   @ \o <<Event("err", url[t], None)>>
                     \o (IF metrics THEN <<Event("inc_errors", None, None)>> ELSE <<>>)]
    /\ pc' = [pc EXCEPT ![t] = "peek"]
    /\ UNCHANGED <<config, block_processor_vars, endpoints_locked_by,
                   endpoints, eth1_api_reset_count, live, args, call, url, result,
                   start_cursor, alone, stable, prev_result, last_result, started>>

\* Mutant: the error telemetry is left for later.
PeekNextEndpoint_silent(t) ==
    /\ pc[t] = "peek"
    /\ trace' = [trace EXCEPT ![t] = Append(@, Event("warn", url[t], peek_next_endpoint))]
    /\ pc' = [pc EXCEPT ![t] = "next"]
    /\ UNCHANGED <<config, block_processor_vars, endpoints_locked_by,
                   endpoints, eth1_api_errors_count, eth1_api_reset_count,
                   live, args, call, url, result, start_cursor, alone, stable, prev_result,
                   last_result, started>>

\* peek_next_endpoint for the warning, then the error telemetry
\* (Eth1ConnectionData::default()).
PeekNextEndpointGuarded(t, held) ==
    /\ pc[t] = "peek"
    /\ EndpointsGuard(t, held)
    /\ trace' = [trace EXCEPT ![t] =
                   @ \o <<Event("warn", url[t], peek_next_endpoint)>>
                     \o (IF eth1_api_to_metrics_tx
                         THEN <<Event("telemetry", FALSE, FALSE)>>
                         ELSE <<>>)]
    /\ pc' = [pc EXCEPT ![t] = "next"]
    /\ UNCHANGED <<config, block_processor_vars, endpoints, eth1_api_errors_count, eth1_api_reset_count,
                   live, args, call, url, result, start_cursor, alone, stable, prev_result,
                   last_result, started>>

PeekNextEndpoint(t) == PeekNextEndpointGuarded(t, FALSE)

\* self.next_endpoint().await
NextEndpointGuarded(t, held) ==
    /\ pc[t] = "next"
    /\ EndpointsGuard(t, held)
    /\ endpoints' = next_endpoint
    /\ trace' = [trace EXCEPT ![t] = Append(@, Event("next", None, None))]
    /\ pc' = [pc EXCEPT ![t] = "current"]
    /\ UNCHANGED <<config, block_processor_vars, eth1_api_errors_count, eth1_api_reset_count, live, args, call,
                   url, result, start_cursor, alone, stable, prev_result, last_result,
                   started>>

NextEndpoint(t) == NextEndpointGuarded(t, FALSE)

\* Mutant: the error does not depend on `original`.
ExhaustedError_always == "EndpointsExhausted"

\* The error request_with_fallback ends with once the cursor is empty.
ExhaustedError == IF original = <<>> THEN "NoEndpointsProvided" ELSE "EndpointsExhausted"

\* After the loop: reset_endpoints, the reset counter, and the error.
ResetEndpointsGuarded(t, held) ==
    /\ pc[t] = "reset"
    /\ EndpointsGuard(t, held)
    /\ endpoints' = reset_endpoints
    /\ eth1_api_reset_count' =
         IF metrics THEN eth1_api_reset_count + 1 ELSE eth1_api_reset_count
    /\ trace' = [trace EXCEPT ![t] =
                   @ \o <<Event("reset", None, None)>>
                     \o (IF metrics THEN <<Event("inc_reset", None, None)>> ELSE <<>>)]
    /\ result' = [result EXCEPT ![t] = Err(ExhaustedError)]
    /\ last_result' = ExhaustedError
    /\ pc' = [pc EXCEPT ![t] = "done"]
    /\ UNCHANGED <<config, block_processor_vars, eth1_api_errors_count, live, args, call, url, start_cursor, alone,
                   stable, prev_result, started>>

\* Mutant: a request that finds the cursor empty waits for another request to
\* refill it and then goes round the loop again.
ResetEndpoints_waits(t) ==
    /\ pc[t] = "reset"
    /\ endpoints # <<>>
    /\ pc' = [pc EXCEPT ![t] = "current"]
    /\ UNCHANGED <<config, block_processor_vars, endpoints_locked_by, endpoints,
                   eth1_api_errors_count, eth1_api_reset_count, live, args, call, url,
                   result, trace, start_cursor, alone, stable, prev_result, last_result,
                   started>>

ResetEndpoints(t) == ResetEndpointsGuarded(t, FALSE)

\* get_blocks of task t is between two of its requests, or about to return.
GetBlocksAwaits(t) == args[t][1] = "get_blocks" /\ args[t][2].stage # "returned"

\* The caller has taken the result; the task may call the client again.
Return(t) ==
    /\ pc[t] = "done"
    /\ ~GetBlocksAwaits(t)
    /\ pc' = [pc EXCEPT ![t] = "idle"]
    /\ args' = [args EXCEPT ![t] = <<None>>]
    /\ call' = [call EXCEPT ![t] = NoCall]
    /\ url' = [url EXCEPT ![t] = None]
    /\ result' = [result EXCEPT ![t] = NoResult]
    /\ trace' = [trace EXCEPT ![t] = <<>>]
    /\ start_cursor' = [start_cursor EXCEPT ![t] = <<>>]
    /\ alone' = [alone EXCEPT ![t] = TRUE]
    /\ stable' = [stable EXCEPT ![t] = TRUE]
    /\ prev_result' = [prev_result EXCEPT ![t] = None]
    /\ UNCHANGED <<config, block_processor_vars, endpoints_locked_by,
                   endpoints, eth1_api_errors_count, eth1_api_reset_count,
                   live, last_result, started>>

\* An execution node goes down or comes back.
EndpointChanges ==
    /\ \E u \in Urls : live' = (live \ {u}) \cup ({u} \ live)
    /\ stable' = [x \in Tasks |-> IF pc[x] # "idle" THEN FALSE ELSE stable[x]]
    /\ UNCHANGED <<config, block_processor_vars, endpoints_locked_by,
                   endpoints, eth1_api_errors_count, eth1_api_reset_count,
                   pc, args, call, url, result, trace, start_cursor, alone, prev_result,
                   last_result, started>>

\* ----------------------------------------------------------- chain queries

\* current_head_number: request_with_fallback(|(api, headers)| api.block_number(headers))
current_head_number(t) ==
    Begin(t, <<"current_head_number">>,
          [kind |-> "block_number", method |-> "eth_blockNumber", params |-> <<>>,
           timeout |-> 0, phase |-> None])

\* ------------------------------------------------------------- Engine API

ENGINE_FORKCHOICE_UPDATED_TIMEOUT == 8

ENGINE_GET_PAYLOAD_TIMEOUT == 1

ENGINE_NEW_PAYLOAD_TIMEOUT == 8

\* Inputs of new_payload: ExecutionPayload<P> and Option<ExecutionPayloadParams>.
ExecutionPayloads == [phase : PostMergePhases, body : Bodies]

ExecutionPayloadParams ==
    {<<"None">>} \cup
    {<<"Some", p>> : p \in [variant : {"Deneb"}, versioned_hashes : {"hashes1"},
                            parent_beacon_block_root : {"root1"}]}

\* ExecutionPayloadV1/V2/V3::from(payload)
ExecutionPayloadV(n, payload) == [payload_version |-> n, body |-> payload.body]

\* Mutant: the method follows the payload's phase whatever the params are.
new_payload_call_by_phase(payload, params) ==
    [kind |-> "new_payload",
     method |-> CASE payload.phase = "Bellatrix" -> "engine_newPayloadV1"
                  [] payload.phase = "Capella" -> "engine_newPayloadV2"
                  [] OTHER -> "engine_newPayloadV3",
     params |-> <<ExecutionPayloadV(1, payload)>>,
     timeout |-> ENGINE_NEW_PAYLOAD_TIMEOUT, phase |-> payload.phase]

\* The match of new_payload: the call made, or NoCall for `_ => bail!(InvalidParameters)`.
new_payload_call(payload, params) ==
    CASE payload.phase = "Bellatrix" /\ params[1] = "None" ->
            [kind |-> "new_payload", method |-> "engine_newPayloadV1",
             params |-> <<ExecutionPayloadV(1, payload)>>,
             timeout |-> ENGINE_NEW_PAYLOAD_TIMEOUT, phase |-> payload.phase]
      [] payload.phase = "Capella" /\ params[1] = "None" ->
            [kind |-> "new_payload", method |-> "engine_newPayloadV2",
             params |-> <<ExecutionPayloadV(2, payload)>>,
             timeout |-> ENGINE_NEW_PAYLOAD_TIMEOUT, phase |-> payload.phase]
      [] payload.phase = "Deneb" /\ params[1] = "Some" /\ params[2].variant = "Deneb" ->
            [kind |-> "new_payload", method |-> "engine_newPayloadV3",
             params |-> <<ExecutionPayloadV(3, payload), params[2].versioned_hashes,
                          params[2].parent_beacon_block_root>>,
             timeout |-> ENGINE_NEW_PAYLOAD_TIMEOUT, phase |-> payload.phase]
      [] OTHER -> NoCall

new_payload(t, payload, params) ==
    IF new_payload_call(payload, params).kind = None
    THEN Bail(t, <<"new_payload", payload, params>>, "InvalidParameters")
    ELSE Begin(t, <<"new_payload", payload, params>>, new_payload_call(payload, params))

\* Inputs of forkchoice_updated: Either<Phase, PayloadAttributes<P>>.
PayloadAttributes == [phase : PostMergePhases, attributes : {"attrs1"}]

EitherPhaseOrAttributes ==
    {<<"Left", ph>> : ph \in PhaseSet} \cup {<<"Right", a>> : a \in PayloadAttributes}

\* Mutant: the phase of the attributes is not looked at.
either_phase_of_marker(e) == IF e[1] = "Left" THEN e[2] ELSE "Bellatrix"

\* payload_attributes.as_ref().either(CopyExt::copy, PayloadAttributes::phase)
either_phase(e) == IF e[1] = "Left" THEN e[2] ELSE e[2].phase

\* payload_attributes.right()
either_right(e) == IF e[1] = "Right" THEN e[2] ELSE None

ForkChoiceStateV1(head, safe, finalized) ==
    [head_block_hash |-> head, safe_block_hash |-> safe, finalized_block_hash |-> finalized]

\* Mutant: phases before Bellatrix are served by the first version of the method.
forkchoice_updated_method_lenient(phase) ==
    CASE phase = "Capella" -> "engine_forkchoiceUpdatedV2"
      [] phase = "Deneb" -> "engine_forkchoiceUpdatedV3"
      [] OTHER -> "engine_forkchoiceUpdatedV1"

\* The first match of forkchoice_updated: the method, or None for
\* `_ => bail!(PhasePreBellatrix)`.
forkchoice_updated_method(phase) ==
    CASE phase = "Bellatrix" -> "engine_forkchoiceUpdatedV1"
      [] phase = "Capella" -> "engine_forkchoiceUpdatedV2"
      [] phase = "Deneb" -> "engine_forkchoiceUpdatedV3"
      [] OTHER -> None

forkchoice_updated_call(head, safe, finalized, payload_attributes) ==
    [kind |-> "forkchoice_updated",
     method |-> forkchoice_updated_method(either_phase(payload_attributes)),
     params |-> <<ForkChoiceStateV1(head, safe, finalized), either_right(payload_attributes)>>,
     timeout |-> ENGINE_FORKCHOICE_UPDATED_TIMEOUT,
     phase |-> either_phase(payload_attributes)]

forkchoice_updated(t, head, safe, finalized, payload_attributes) ==
    IF forkchoice_updated_method(either_phase(payload_attributes)) = None
    THEN Bail(t, <<"forkchoice_updated", head, safe, finalized, payload_attributes>>,
              "PhasePreBellatrix")
    ELSE Begin(t, <<"forkchoice_updated", head, safe, finalized, payload_attributes>>,
               forkchoice_updated_call(head, safe, finalized, payload_attributes))

\* Inputs of get_payload: PayloadId, a phase tag around an 8-byte id.
PayloadIds == {<<ph, id>> : ph \in PostMergePhases, id \in Ids}

\* Mutant: every id is redeemed with the first version of the method.
get_payload_method_v1(phase) == "engine_getPayloadV1"

\* The match of get_payload on the tag of the payload id.
get_payload_method(phase) ==
    CASE phase = "Bellatrix" -> "engine_getPayloadV1"
      [] phase = "Capella" -> "engine_getPayloadV2"
      [] phase = "Deneb" -> "engine_getPayloadV3"

get_payload(t, payload_id) ==
    Begin(t, <<"get_payload", payload_id>>,
          [kind |-> "get_payload", method |-> get_payload_method(payload_id[1]),
           params |-> <<payload_id[2]>>, timeout |-> ENGINE_GET_PAYLOAD_TIMEOUT,
           phase |-> payload_id[1]])

Step(t) ==
    \/ CurrentEndpoint(t)
    \/ QueryOk(t)
    \/ QueryErr(t)
    \/ PeekNextEndpoint(t)
    \/ NextEndpoint(t)
    \/ ResetEndpoints(t)
    \/ Return(t)

\* One caller: requests follow one another.
Next ==
    \/ \E t \in DispatchTasks : current_head_number(t)
    \/ \E t \in DispatchTasks : Step(t)
    \/ EndpointChanges

Spec == Init /\ [][Next]_vars

\* The result slot of a request whose future was dropped: the caller gets nothing.
Cancelled == <<"Cancelled", None>>

\* Mutant: a dropped call is counted as a failed one.
Cancel_counted(t) ==
    /\ pc[t] = "call"
    /\ eth1_api_errors_count' = eth1_api_errors_count_inc
    /\ result' = [result EXCEPT ![t] = Cancelled]
    /\ trace' = [trace EXCEPT ![t] = Append(@, Event("cancel", url[t], None))]
    /\ pc' = [pc EXCEPT ![t] = "done"]
    /\ UNCHANGED <<config, block_processor_vars, endpoints_locked_by,
                   endpoints, eth1_api_reset_count, live, args, call, url,
                   start_cursor, alone, stable, prev_result, last_result, started>>

\* The task awaiting the request is cancelled while `query(..).await` is
\* pending: the future is dropped at the await point and none of the code
\* after it runs.
Cancel(t) ==
    /\ pc[t] = "call"
    /\ result' = [result EXCEPT ![t] = Cancelled]
    /\ trace' = [trace EXCEPT ![t] = Append(@, Event("cancel", url[t], None))]
    /\ pc' = [pc EXCEPT ![t] = "done"]
    /\ UNCHANGED <<config, block_processor_vars, endpoints_locked_by,
                   endpoints, eth1_api_errors_count, eth1_api_reset_count,
                   live, args, call, url, start_cursor, alone, stable, prev_result,
                   last_result, started>>

\* One caller whose requests may be cancelled while a call is in flight.
NextCancel ==
    \/ Next
    \/ \E t \in DispatchTasks : Cancel(t)

SpecCancel == Init /\ [][NextCancel]_vars

\* get_block: request_with_fallback(|(api, headers)| api.block(block_id, headers))
get_block(t, block_id) ==
    Begin(t, <<"get_block", block_id>>,
          [kind |-> "block", method |-> "eth_getBlock", params |-> <<block_id>>,
           timeout |-> 0, phase |-> None])

\* Block number ranges handed to get_deposit_events.
BlockNumberRanges == {<<1, 1>>, <<1, 2>>}

\* get_deposit_events: request_with_fallback(|(api, headers)| api.logs(filter, headers))
\* with the filter built from the range, the deposit contract and the topic.
get_deposit_events(t, block_number_range) ==
    Begin(t, <<"get_deposit_events", block_number_range>>,
          [kind |-> "logs", method |-> "eth_getLogs",
           params |-> <<[from_block |-> block_number_range[1],
                         to_block |-> block_number_range[2],
                         topics |-> "DepositEvent::TOPIC"]>>,
           timeout |-> 0, phase |-> None])

\* Several callers share the client: their requests interleave at every await.
\* As many requests are begun as there are callers.
NextConcurrent ==
    /\ \/ \E t \in Tasks : current_head_number(t)
       \/ \E t \in Tasks : Step(t)
       \/ EndpointChanges
    /\ started' <= Cardinality(Tasks)

\* The callers' client reports to the metrics service (both sinks are Some).
InitConcurrent == Init /\ metrics /\ eth1_api_to_metrics_tx

SpecConcurrent == InitConcurrent /\ [][NextConcurrent]_vars

\* The callers' tasks are polled again and again, and every call issued
\* completes, with a result or with an error.
FairRequests == \A t \in Tasks : WF_vars(Step(t))

\* Several callers share the client; each execution node stays up or down.
NextLive ==
    /\ \/ \E t \in Tasks : current_head_number(t)
       \/ \E t \in Tasks : Step(t)
    /\ started' <= Cardinality(Tasks)

SpecLive == InitConcurrent /\ [][NextLive]_vars /\ FairRequests

\* The positions at which a request awaits one of the four cursor operations.
CursorSteps == {"current", "peek", "next", "reset"}

\* `self.endpoints.lock().await` resolves: the lock is free and the task takes
\* the guard; the operation on the cursor follows in the next step of the task.
LockEndpoints(t) ==
    /\ pc[t] \in CursorSteps
    /\ endpoints_locked_by = None
    /\ endpoints_locked_by' = t
    /\ UNCHANGED <<config, block_processor_vars, endpoints, eth1_api_errors_count,
                   eth1_api_reset_count, live, pc, args, call, url, result, trace,
                   start_cursor, alone, stable, prev_result, last_result, started>>

\* The cursor operation of a task that holds the guard.
GuardedStep(t) ==
    \/ CurrentEndpointGuarded(t, TRUE)
    \/ PeekNextEndpointGuarded(t, TRUE)
    \/ NextEndpointGuarded(t, TRUE)
    \/ ResetEndpointsGuarded(t, TRUE)

\* request_with_fallback with the taking of the lock as a step of its own.
StepLocked(t) ==
    \/ LockEndpoints(t)
    \/ GuardedStep(t)
    \/ QueryOk(t)
    \/ QueryErr(t)
    \/ Return(t)

\* Several callers share the client and contend for the lock of the cursor;
\* each execution node stays up or down.
NextLocked ==
    /\ \/ \E t \in Tasks : current_head_number(t)
       \/ \E t \in Tasks : StepLocked(t)
    /\ started' <= Cardinality(Tasks)

SpecLocked == InitConcurrent /\ [][NextLocked]_vars

\* One caller of the Engine API methods; each execution node stays up or down.
NextEngine ==
    \/ \E t \in DispatchTasks, payload \in ExecutionPayloads, params \in ExecutionPayloadParams :
         new_payload(t, payload, params)
    \/ \E t \in DispatchTasks, head \in HeadHashes, safe \in SafeHashes,
          finalized \in FinalizedHashes, pa \in EitherPhaseOrAttributes :
         forkchoice_updated(t, head, safe, finalized, pa)
    \/ \E t \in DispatchTasks, payload_id \in PayloadIds : get_payload(t, payload_id)
    \/ \E t \in DispatchTasks : Step(t)

SpecEngine == InitConcurrent /\ [][NextEngine]_vars

\* The filter call of get_deposit_events.
logs_call(block_number_range) ==
    [kind |-> "logs", method |-> "eth_getLogs", params |-> <<block_number_range>>,
     timeout |-> 0, phase |-> None]

\* The call of get_block_by_number.
block_by_number_call(block_number) ==
    [kind |-> "block", method |-> "eth_getBlock", params |-> <<block_number>>,
     timeout |-> 0, phase |-> None]

\* get_blocks: `self.get_deposit_events(block_number_range.clone()).await?`
\* comes first; `blocks` is empty.
get_blocks(t, block_number_range) ==
    Begin(t, <<"get_blocks",
               [range |-> block_number_range, stage |-> "events",
                deposit_data |-> <<>>, blocks |-> <<>>,
                block_number |-> block_number_range[1], history |-> <<>>]>>,
          logs_call(block_number_range))

\* Mutant: a block takes the events of the lowest block number left.
removed_deposit_events_lowest(deposit_data, block_number) ==
    IF DOMAIN deposit_data = {} THEN <<>>
    ELSE deposit_data[CHOOSE n \in DOMAIN deposit_data :
                         \A m \in DOMAIN deposit_data : n <= m]

\* deposit_data.remove(&block_number).unwrap_or_default(): the events removed
removed_deposit_events(deposit_data, block_number) ==
    IF block_number \in DOMAIN deposit_data THEN deposit_data[block_number] ELSE <<>>

\* deposit_data.remove(&block_number): the map left behind
deposit_data_remove(deposit_data, block_number) ==
    [n \in DOMAIN deposit_data \ {block_number} |-> deposit_data[n]]

\* Eth1Block { deposit_events: deposit_events.try_into()?, ..block }
Eth1BlockWithEvents(block, block_number, deposit_events) ==
    [eth1_block |-> block.eth1_block, block_number |-> block_number,
     deposit_events |-> deposit_events]

\* get_blocks goes on from the request that has just returned `result[t]`: an
\* error is returned by `?`; the events become deposit_data; a block takes its
\* events and is pushed, a missing block is passed over; then the next block
\* number of the range is asked for, or Ok(blocks) is returned.
GetBlocksContinues(t) ==
    /\ pc[t] = "done"
    /\ GetBlocksAwaits(t)
    /\ LET a == args[t][2]
           r == result[t]
           h == Append(a.history, r)
           n == a.block_number
           deposit_data ==
               IF a.stage = "events" THEN r[2] ELSE deposit_data_remove(a.deposit_data, n)
           blocks ==
               IF a.stage = "blocks" /\ r[2][1] = "Some"
               THEN Append(a.blocks,
                           Eth1BlockWithEvents(r[2][2], n,
                                               removed_deposit_events(a.deposit_data, n)))
               ELSE a.blocks
           kept == IF a.stage = "blocks" /\ r[2][1] = "None" THEN a.deposit_data
                   ELSE deposit_data
           next == IF a.stage = "events" THEN a.range[1] ELSE n + 1
       IN  IF r[1] = "Err"
           THEN /\ args' = [args EXCEPT ![t][2] = [a EXCEPT !.stage = "returned",
                                                            !.history = h]]
                /\ UNCHANGED <<pc, call, url, result, trace, start_cursor, last_result>>
           ELSE IF next > a.range[2]
           THEN /\ args' = [args EXCEPT ![t][2] =
                              [a EXCEPT !.stage = "returned", !.history = h,
                                        !.deposit_data = kept, !.blocks = blocks]]
                /\ result' = [result EXCEPT ![t] = Ok(blocks)]
                /\ last_result' = "Ok"
                /\ UNCHANGED <<pc, call, url, trace, start_cursor>>
           ELSE /\ args' = [args EXCEPT ![t][2] =
                              [a EXCEPT !.stage = "blocks", !.history = h,
                                        !.deposit_data = kept, !.blocks = blocks,
                                        !.block_number = next]]
                /\ pc' = [pc EXCEPT ![t] = "current"]
                /\ call' = [call EXCEPT ![t] = block_by_number_call(next)]
                /\ url' = [url EXCEPT ![t] = None]
                /\ result' = [result EXCEPT ![t] = NoResult]
                /\ trace' = [trace EXCEPT ![t] = <<>>]
                /\ start_cursor' = [start_cursor EXCEPT ![t] = endpoints]
                /\ UNCHANGED last_result
    /\ UNCHANGED <<config, block_processor_vars, endpoints_locked_by,
                   endpoints, eth1_api_errors_count,
                   eth1_api_reset_count, live, alone, stable, prev_result, started>>

\* One call of get_deposit_events or of get_blocks; each execution node stays
\* up or down.
NextChain ==
    /\ \/ \E t \in DispatchTasks, block_number_range \in BlockNumberRanges :
            get_deposit_events(t, block_number_range)
       \/ \E t \in DispatchTasks, block_number_range \in BlockNumberRanges :
            get_blocks(t, block_number_range)
       \/ \E t \in DispatchTasks : GetBlocksContinues(t)
       \/ \E t \in DispatchTasks : Step(t)
    /\ started' <= 1

SpecChain == InitConcurrent /\ [][NextChain]_vars

\* One caller of the chain queries and of the Engine API methods.
NextApi ==
    \/ \E t \in DispatchTasks : current_head_number(t)
    \/ \E t \in DispatchTasks, block_id \in BlockIds : get_block(t, block_id)
    \/ \E t \in DispatchTasks, block_number_range \in BlockNumberRanges :
         get_deposit_events(t, block_number_range)
    \/ NextEngine

SpecApi == InitConcurrent /\ [][NextApi]_vars

\* ---------------------------------------------------------- TimingMetrics

Durations == 0..MaxDuration

\* TimingMetrics::new(max_size)
TimingMetrics_new(size) ==
    /\ times = <<>>
    /\ total = 0
    /\ max_size = size

\* Mutant: the window is full one sample later.
full_late(m) == Len(m.times) > m.max_size

\* `self.times.len() >= self.max_size`
full(m) == Len(m.times) >= m.max_size

\* TimingMetrics::update on the value m: pop_front (and subtract) when full,
\* then push_back and add.
Updated(m, duration) ==
    LET popped == full(m) /\ m.times # <<>>
        kept == IF popped THEN Tail(m.times) ELSE m.times
        rest == IF popped THEN m.total - Head(m.times) ELSE m.total
    IN  [times |-> Append(kept, duration), total |-> rest + duration,
         max_size |-> m.max_size]

\* The durations handed to TimingMetrics::update so far, oldest first.
Samples == IF op.name = "update" THEN op.durations ELSE <<>>

\* TimingMetrics::update called on the metrics under study.
update(duration) ==
    /\ n_updates < MaxUpdates
    /\ LET m == Updated([times |-> times, total |-> total, max_size |-> max_size],
                        duration)
       IN  /\ times' = m.times
           /\ total' = m.total
    /\ n_updates' = n_updates + 1
    /\ op' = [name |-> "update", durations |-> Append(Samples, duration)]
    /\ UNCHANGED <<max_size, eth1_api_vars, state_cache, timing_metrics, n_operations>>

\* The elements of a sequence of durations.
Range(s) == {s[i] : i \in 1..Len(s)}

\* sorted.sort(): insertion into an ascending sequence, element by element.
RECURSIVE Insert(_, _)
Insert(x, s) ==
    IF s = <<>> THEN <<x>>
    ELSE IF x <= Head(s) THEN <<x>> \o s
         ELSE <<Head(s)>> \o Insert(x, Tail(s))

RECURSIVE sort(_)
sort(s) == IF s = <<>> THEN <<>> ELSE Insert(Head(s), sort(Tail(s)))

\* Option<Duration>
Some(d) == <<"Some", d>>

Absent == <<"None">>

\* self.times.iter().min().copied()
min == IF times = <<>> THEN Absent
       ELSE Some(CHOOSE d \in Range(times) : \A e \in Range(times) : d <= e)

\* self.times.iter().max().copied()
max == IF times = <<>> THEN Absent
       ELSE Some(CHOOSE d \in Range(times) : \A e \in Range(times) : d >= e)

\* (!self.times.is_empty()).then(|| self.total / self.times.len() as u32)
average == IF times = <<>> THEN Absent ELSE Some(total \div Len(times))

\* Mutant: the element at the middle index, whatever the parity of the length.
median_upper ==
    IF Len(times) = 0 THEN Absent
    ELSE Some(sort(times)[(Len(times) \div 2) + 1])

\* median: (*sorted[mid_idx] + *sorted[len - 1 - mid_idx]) / 2, on 0-based indexes
median ==
    LET len == Len(times)
        sorted == sort(times)
        mid_idx == len \div 2
    IN  IF len = 0 THEN Absent
        ELSE Some((sorted[mid_idx + 1] + sorted[(len - 1 - mid_idx) + 1]) \div 2)

\* self.times.len()
count == Len(times)

\* self.times.back().copied()
last == IF times = <<>> THEN Absent ELSE Some(times[Len(times)])

\* No execution API client is in use.
Eth1ApiUnused ==
    /\ original = <<>>
    /\ endpoints = original
    /\ endpoints_locked_by = None
    /\ eth1_api_to_metrics_tx = FALSE
    /\ metrics = FALSE
    /\ eth1_api_errors_count = 0
    /\ eth1_api_reset_count = 0
    /\ live = {}
    /\ pc = [t \in Tasks |-> "idle"]
    /\ args = [t \in Tasks |-> <<None>>]
    /\ call = [t \in Tasks |-> NoCall]
    /\ url = [t \in Tasks |-> None]
    /\ result = [t \in Tasks |-> NoResult]
    /\ trace = [t \in Tasks |-> <<>>]
    /\ start_cursor = [t \in Tasks |-> <<>>]
    /\ alone = [t \in Tasks |-> TRUE]
    /\ stable = [t \in Tasks |-> TRUE]
    /\ prev_result = [t \in Tasks |-> None]
    /\ last_result = None
    /\ started = 0

\* One TimingMetrics of any capacity, updated with any durations.
InitTiming ==
    /\ \E size \in 0..MaxCapacity : TimingMetrics_new(size)
    /\ n_updates = 0
    /\ state_cache = {}
    /\ timing_metrics = <<>>
    /\ op = [name |-> None]
    /\ n_operations = 0
    /\ Eth1ApiUnused

NextTiming == \E duration \in Durations : update(duration)

SpecTiming == InitTiming /\ [][NextTiming]_vars

\* --------------------------------------------------------- block rewards

\* SyncAggregateRewards::total
SyncAggregateRewards_total(rewards) == rewards.total

\* slot_report.attestation_rewards.iter().sum() and the like
RECURSIVE sum(_)
sum(rewards) == IF rewards = <<>> THEN 0 ELSE Head(rewards) + sum(Tail(rewards))

\* Mutant: the total leaves the sync aggregate out.
calculate_block_rewards_without_sync(slot_report) ==
    LET attestations == sum(slot_report.attestation_rewards)
        sync_aggregate ==
            IF slot_report.sync_aggregate_rewards[1] = "None" THEN 0
            ELSE SyncAggregateRewards_total(slot_report.sync_aggregate_rewards[2])
        proposer_slashings == sum(slot_report.slashing_rewards.Proposer)
        attester_slashings == sum(slot_report.slashing_rewards.Attester)
    IN  [total |-> attestations + proposer_slashings + attester_slashings,
         attestations |-> attestations,
         sync_aggregate |-> sync_aggregate,
         proposer_slashings |-> proposer_slashings,
         attester_slashings |-> attester_slashings]

\* calculate_block_rewards(slot_report)
calculate_block_rewards(slot_report) ==
    LET attestations == sum(slot_report.attestation_rewards)
        sync_aggregate ==
            IF slot_report.sync_aggregate_rewards[1] = "None" THEN 0
            ELSE SyncAggregateRewards_total(slot_report.sync_aggregate_rewards[2])
        proposer_slashings == sum(slot_report.slashing_rewards.Proposer)
        attester_slashings == sum(slot_report.slashing_rewards.Attester)
    IN  [total |-> attestations + sync_aggregate + proposer_slashings + attester_slashings,
         attestations |-> attestations,
         sync_aggregate |-> sync_aggregate,
         proposer_slashings |-> proposer_slashings,
         attester_slashings |-> attester_slashings]

\* ------------------------------------------------------- Block Processor

\* Slots of blocks.
Slots == {1, 2}

\* Blocks: the phase, and whether a post-Bellatrix body carries an execution payload.
Blocks ==
    {b \in [slot : Slots, phase : {"Altair", "Bellatrix", "Capella"}, payload : BOOLEAN] :
        b.phase = "Altair" => ~b.payload}

\* block.hash_tree_root(): one root per block content; a blinded block has the
\* root of the block it blinds.
HashTreeRoot(block) == <<"root", block.slot, block.phase, block.payload>>

NoRoot == <<"root">>

\* Beacon states, as far as the Block Processor looks into them.
BeaconState(slot, merge_complete, latest_block_root) ==
    [slot |-> slot, merge_complete |-> merge_complete,
     latest_block_root |-> latest_block_root]

\* States handed to the operations by their callers.
States == {BeaconState(1, merged, NoRoot) : merged \in BOOLEAN}

\* The slot report the block processing fills in.
SlotReports ==
    {[attestation_rewards |-> <<1, 2>>, sync_aggregate_rewards |-> Some([total |-> 3]),
      slashing_rewards |-> [Proposer |-> <<>>, Attester |-> <<4>>]]}

\* start.elapsed()
Elapsed == {1}

\* combined::process_{untrusted,trusted}[_blinded]_block on state.make_mut():
\* the block is applied to the state as it stands.
ProcessBlock(state, block) ==
    BeaconState(state.slot, state.merge_complete \/ block.payload, HashTreeRoot(block))

\* combined::process_slots(config, state.make_mut(), slot)
ProcessSlotsTo(state, slot) == [state EXCEPT !.slot = slot]

\* ProcessSlots
ProcessSlots == {"Always", "IfNeeded", "Never"}

\* combined::custom_state_transition: the state is advanced to the block's
\* slot as the policy says, then the block is applied.
CustomStateTransition(state, block, process_slots) ==
    LET advance == \/ process_slots = "Always"
                   \/ process_slots = "IfNeeded" /\ state.slot < block.slot
    IN  ProcessBlock(IF advance THEN ProcessSlotsTo(state, block.slot) ELSE state, block)

\* The entry of the cache under a key, if any.
Cached(cache, block_root, slot, flag) ==
    {e \in cache : e.block_root = block_root /\ e.slot = slot /\ e.flag = flag}

\* StateCacheProcessor::get_or_insert_with(block_root, slot, flag, compute):
\* the stored value on a hit; on a miss `computed`, the result of the closure,
\* which is stored if it is Ok.
GetOrInsertWith(cache, block_root, slot, flag, computed) ==
    IF Cached(cache, block_root, slot, flag) # {}
    THEN LET e == CHOOSE e \in Cached(cache, block_root, slot, flag) : TRUE
         IN  [cache |-> cache, hit |-> TRUE, result |-> Ok(<<e.state, e.rewards>>)]
    ELSE IF computed[1] = "Err"
         THEN [cache |-> cache, hit |-> FALSE, result |-> computed]
         ELSE [cache |-> cache \cup {[block_root |-> block_root, slot |-> slot,
                                      flag |-> flag, state |-> computed[2][1],
                                      rewards |-> computed[2][2]]},
               hit |-> FALSE, result |-> computed]

\* Mutant: every duration is recorded under one name.
update_metrics_shared(tm, name, duration) ==
    LET entry == IF "block_processor" \in DOMAIN tm THEN tm["block_processor"]
                 ELSE [times |-> <<>>, total |-> 0, max_size |-> 100]
    IN  [n \in DOMAIN tm \cup {"block_processor"} |->
            IF n = "block_processor" THEN Updated(entry, duration) ELSE tm[n]]

\* update_metrics(name, duration): the entry of the name, made with
\* TimingMetrics::new(100) if missing, is updated.
update_metrics(tm, name, duration) ==
    LET entry == IF name \in DOMAIN tm THEN tm[name]
                 ELSE [times |-> <<>>, total |-> 0, max_size |-> 100]
    IN  [n \in DOMAIN tm \cup {name} |->
            IF n = name THEN Updated(entry, duration) ELSE tm[n]]

\* What update_metrics does, in order: the metrics lock is taken, the entry of
\* the name is updated, and the guard is dropped when the function returns.
update_metrics_steps(name) == <<"metrics.lock", name, "metrics.unlock">>

\* What get_or_insert_with does, in order: the cache is asked, and the closure
\* runs the transition when the cache has no entry.
get_or_insert_with_steps(hit) ==
    <<"state_cache.get_or_insert_with">> \o (IF hit THEN <<>> ELSE <<"transition">>)

MayOperate == n_operations < MaxOperations

\* Mutant: the closure goes on after a failed transition.
compute_unchecked(state, block, slot_report, transition_ok) ==
    Ok(<<ProcessBlock(state, block), Some(calculate_block_rewards(slot_report))>>)

\* The closure of a with-report operation: the block is processed on the
\* state, an error of the transition is returned by `?`, and the rewards are
\* computed from the slot report the transition filled in.
compute(state, block, slot_report, transition_ok) ==
    IF transition_ok
    THEN Ok(<<ProcessBlock(state, block), Some(calculate_block_rewards(slot_report))>>)
    ELSE Err("TransitionError")

\* Mutant: results computed without the randao check are cached apart.
with_report_flag_by_skip(skip_randao_verification) == skip_randao_verification

\* The flag the with-report operations hand to get_or_insert_with: the literal
\* false, whatever skip_randao_verification is.
with_report_flag(skip_randao_verification) == FALSE

\* The body shared by the four process_*_block_with_report operations: the
\* cache is asked for (block.hash_tree_root(), block.slot(), false) with the
\* closure, the duration is recorded and the result of the cache returned.
WithReport(name, state, block, skip_randao_verification, slot_report, transition_ok, duration) ==
    LET computed == compute(state, block, slot_report, transition_ok)
        flag == with_report_flag(skip_randao_verification)
        r == GetOrInsertWith(state_cache, HashTreeRoot(block), block.slot, flag, computed)
    IN  /\ MayOperate
        /\ state_cache' = r.cache
        /\ timing_metrics' = update_metrics(timing_metrics, name, duration)
        /\ op' = [name |-> name, state |-> state, block |-> block,
                  block_root |-> NoRoot,
                  skip_randao_verification |-> skip_randao_verification,
                  process_slots |-> None,
                  queries |-> <<<<HashTreeRoot(block), block.slot, flag>>>>,
                  hit |-> r.hit,
                  transitions |-> IF r.hit THEN <<>> ELSE <<name>>,
                  failed |-> ~r.hit /\ ~transition_ok,
                  recorded |-> <<name>>,
                  steps |-> get_or_insert_with_steps(r.hit) \o update_metrics_steps(name),
                  result |-> r.result]
        /\ n_operations' = n_operations + 1
        /\ UNCHANGED <<eth1_api_vars, times, total, max_size, n_updates>>

process_untrusted_block_with_report(state, block, skip_randao_verification) ==
    \E slot_report \in SlotReports, transition_ok \in BOOLEAN, duration \in Elapsed :
        WithReport("process_untrusted_block", state, block, skip_randao_verification,
                   slot_report, transition_ok, duration)

process_trusted_block_with_report(state, block) ==
    \E slot_report \in SlotReports, transition_ok \in BOOLEAN, duration \in Elapsed :
        WithReport("process_trusted_block", state, block, FALSE,
                   slot_report, transition_ok, duration)

process_untrusted_blinded_block_with_report(state, block, skip_randao_verification) ==
    \E slot_report \in SlotReports, transition_ok \in BOOLEAN, duration \in Elapsed :
        WithReport("process_untrusted_blinded_block", state, block,
                   skip_randao_verification, slot_report, transition_ok, duration)

process_trusted_blinded_block_with_report(state, block) ==
    \E slot_report \in SlotReports, transition_ok \in BOOLEAN, duration \in Elapsed :
        WithReport("process_trusted_blinded_block", state, block, FALSE,
                   slot_report, transition_ok, duration)

\* Mutant: the transition is looked up under the flag of the report variants.
full_transition_flag_false == FALSE

\* The flag perform_state_transition hands to get_or_insert_with.
full_transition_flag == TRUE

\* perform_state_transition as a function of the cache and the metrics it
\* finds: the cache is asked for (block_root, block.message().slot(), true),
\* the closure runs custom_state_transition, the rewards are dropped from the
\* result and the duration is recorded.
PerformStateTransition(cache, tm, state, block, block_root, process_slots, transition_ok, duration) ==
    LET computed == IF transition_ok
                    THEN Ok(<<CustomStateTransition(state, block, process_slots), Absent>>)
                    ELSE Err("TransitionError")
        r == GetOrInsertWith(cache, block_root, block.slot, full_transition_flag, computed)
    IN  [cache |-> r.cache,
         timing_metrics |-> update_metrics(tm, "perform_state_transition", duration),
         query |-> <<block_root, block.slot, full_transition_flag>>,
         hit |-> r.hit,
         failed |-> ~r.hit /\ ~transition_ok,
         steps |-> get_or_insert_with_steps(r.hit)
                   \o update_metrics_steps("perform_state_transition"),
         result |-> IF r.result[1] = "Ok" THEN Ok(r.result[2][1]) ELSE r.result]

perform_state_transition(state, block, block_root, process_slots) ==
    \E transition_ok \in BOOLEAN, duration \in Elapsed :
        LET r == PerformStateTransition(state_cache, timing_metrics, state, block,
                                        block_root, process_slots, transition_ok, duration)
        IN  /\ MayOperate
            /\ state_cache' = r.cache
            /\ timing_metrics' = r.timing_metrics
            /\ op' = [name |-> "perform_state_transition", state |-> state,
                      block |-> block, block_root |-> block_root,
                      skip_randao_verification |-> FALSE,
                      process_slots |-> process_slots,
                      queries |-> <<r.query>>,
                      hit |-> r.hit,
                      transitions |-> IF r.hit THEN <<>> ELSE <<"custom_state_transition">>,
                      failed |-> r.failed,
                      recorded |-> <<"perform_state_transition">>,
                      steps |-> r.steps,
                      result |-> r.result]
            /\ n_operations' = n_operations + 1
            /\ UNCHANGED <<eth1_api_vars, times, total, max_size, n_updates>>

\* BlockProcessor::new with an empty cache and no metrics yet.
InitBlockProcessor ==
    /\ state_cache = {}
    /\ timing_metrics = <<>>
    /\ op = [name |-> None]
    /\ n_operations = 0
    /\ TimingMetrics_new(0)
    /\ n_updates = 0
    /\ Eth1ApiUnused

\* Block roots a caller may hand to perform_state_transition for a block.
BlockRoots(block) == {HashTreeRoot(block), NoRoot}

\* The blocks processed through the cache: one per slot.
ProcessedBlocks == {b \in Blocks : b.phase = "Altair"}

\* The cache-keyed operations, called in any order.
NextBlockProcessor ==
    \/ \E state \in States, block \in ProcessedBlocks, skip \in BOOLEAN :
         process_untrusted_block_with_report(state, block, skip)
    \/ \E state \in States, block \in ProcessedBlocks :
         process_trusted_block_with_report(state, block)
    \/ \E state \in States, block \in ProcessedBlocks, skip \in BOOLEAN :
         process_untrusted_blinded_block_with_report(state, block, skip)
    \/ \E state \in States, block \in ProcessedBlocks :
         process_trusted_blinded_block_with_report(state, block)
    \/ \E state \in States, block \in ProcessedBlocks :
         \E block_root \in BlockRoots(block), process_slots \in ProcessSlots :
            perform_state_transition(state, block, block_root, process_slots)

SpecBlockProcessor == InitBlockProcessor /\ [][NextBlockProcessor]_vars

\* ---------------------------------------------- rewards of a slot report

\* Rewards of one attestation or slashing, in Gwei.
Rewards == {1, 2}

\* Every slot report with lists of up to MaxRewards rewards.
RealSlotReports ==
    [attestation_rewards : SeqsUpTo(Rewards, MaxRewards),
     sync_aggregate_rewards : {Absent, Some([total |-> 0]), Some([total |-> 3])},
     slashing_rewards : [Proposer : SeqsUpTo(Rewards, MaxRewards),
                         Attester : SeqsUpTo(Rewards, MaxRewards)]]

\* A slot report has been filled in by the processing of a block.
InitRewards ==
    /\ \E slot_report \in RealSlotReports :
          op = [name |-> "slot_report", slot_report |-> slot_report]
    /\ state_cache = {}
    /\ timing_metrics = <<>>
    /\ n_operations = 0
    /\ TimingMetrics_new(0)
    /\ n_updates = 0
    /\ Eth1ApiUnused

\* let block_rewards = calculate_block_rewards(&slot_report);
BlockRewardsCalculated ==
    /\ op.name = "slot_report"
    /\ op' = [name |-> "block_rewards", slot_report |-> op.slot_report,
              block_rewards |-> calculate_block_rewards(op.slot_report)]
    /\ UNCHANGED <<state_cache, timing_metrics, n_operations, eth1_api_vars,
                   times, total, max_size, n_updates>>

NextRewards == BlockRewardsCalculated

SpecRewards == InitRewards /\ [][NextRewards]_vars

\* ------------------------------------------------------ block validation

\* The position of a phase in the order of the phases.
PhaseOrd(phase) == CHOOSE i \in 1..Len(Phases) : Phases[i] = phase

\* The blocks validated: before the merge, at the merge and after Capella.
ValidatedBlocks ==
    {b \in Blocks : \/ b.phase = "Altair"
                    \/ b.phase \in {"Bellatrix", "Capella"} /\ b.payload}

\* The parents the Store may hand to the closure: the block root of the
\* parent and the state the Store materializes for it.
Parents ==
    [block_root : {NoRoot} \cup {HashTreeRoot(b) : b \in {x \in ValidatedBlocks :
                                      x.slot = 1 /\ x.phase = "Altair"}},
     state : States]

\* parent.state(store)
ParentState(parent) == parent.state

\* StateCacheProcessor::before_or_at_slot(store, block_root, slot): a cached
\* state of the block root at or before the slot, or nothing.
BeforeOrAtSlot(cache, block_root, slot) ==
    {Absent} \cup {Some(e.state) : e \in {x \in cache : x.block_root = block_root
                                                      /\ x.slot <= slot}}

\* .unwrap_or_else(|| parent.state(store))
UnwrapOrElse(looked_up, parent) ==
    IF looked_up[1] = "Some" THEN looked_up[2] ELSE ParentState(parent)

\* The answers of the Store's hooks when they do not run the closure.
StoreAnswers == {Ok(<<"Ignore", TRUE>>), Err("StoreError")}

\* Mutant: slots are processed also when the state is at the block's slot.
needs_process_slots_at_slot(state, block_slot) == state.slot <= block_slot

\* state.slot() < block_slot
needs_process_slots(state, block_slot) == state.slot < block_slot

\* The closure of validate_block_for_gossip, run on a parent.
GossipClosure(block, parent, looked_up, slots_ok, gossip_ok) ==
    LET state == UnwrapOrElse(looked_up, parent)
        advance == needs_process_slots(state, block.slot)
        advanced == IF advance THEN ProcessSlotsTo(state, block.slot) ELSE state
    IN  IF advance /\ ~slots_ok
        THEN [state |-> state, transitions |-> <<"process_slots">>,
              gossip_state |-> Absent, result |-> Err("TransitionError")]
        ELSE [state |-> state,
              transitions |-> (IF advance THEN <<"process_slots">> ELSE <<>>)
                              \o <<"process_block_for_gossip">>,
              gossip_state |-> Some(advanced),
              result |-> IF gossip_ok THEN Ok(Absent) ELSE Err("TransitionError")]

\* validate_block_for_gossip(store, block): the Store's hook runs the closure
\* on the parent, or answers by itself; the duration is recorded.
validate_block_for_gossip(block) ==
    /\ MayOperate
    /\ \/ \E parent \in Parents, slots_ok \in BOOLEAN, gossip_ok \in BOOLEAN :
            \E looked_up \in BeforeOrAtSlot(state_cache, parent.block_root, block.slot) :
               \E c \in {GossipClosure(block, parent, looked_up, slots_ok, gossip_ok)} :
                   op' = [name |-> "validate_block_for_gossip", block |-> block,
                          called |-> TRUE, parent |-> parent, looked_up |-> looked_up,
                          state |-> c.state, transitions |-> c.transitions,
                          gossip_state |-> c.gossip_state, closure |-> c.result,
                          recorded |-> <<"validate_block_for_gossip">>,
                          steps |-> <<"state_cache.before_or_at_slot">>
                                    \o c.transitions
                                    \o update_metrics_steps("validate_block_for_gossip"),
                          result |-> c.result]
       \/ \E answer \in StoreAnswers :
            op' = [name |-> "validate_block_for_gossip", block |-> block,
                   called |-> FALSE,
                   recorded |-> <<"validate_block_for_gossip">>,
                   steps |-> update_metrics_steps("validate_block_for_gossip"),
                   result |-> answer]
    /\ \E duration \in Elapsed :
         timing_metrics' = update_metrics(timing_metrics, "validate_block_for_gossip", duration)
    /\ n_operations' = n_operations + 1
    /\ UNCHANGED <<state_cache, eth1_api_vars, times, total, max_size, n_updates>>

\* Mutant: the merge-transition check is made for blocks of every phase.
merge_check_applies_always(block) == TRUE

\* block.phase() < Phase::Capella
merge_check_applies(block) == PhaseOrd(block.phase) < PhaseOrd("Capella")

\* block.message().body().post_bellatrix() is some body
post_bellatrix(block) == PhaseOrd(block.phase) >= PhaseOrd("Bellatrix")

\* predicates::is_merge_transition_block(&state, body)
is_merge_transition_block(state, block) == ~state.merge_complete /\ block.payload

\* validate_merge_block(config, block, body, execution_engine)
PartialBlockActions == {Ok("Accept"), Ok("Ignore"), Err("MergeBlockError")}

\* BlockAction::Ignore(false)
ignore_action == <<"Ignore", FALSE>>

\* Mutant: the transition never processes slots.
validate_block_process_slots_never == "Never"

\* ProcessSlots::IfNeeded
validate_block_process_slots == "IfNeeded"

\* The closure of validate_block, run on (block_root, parent): the merge
\* check on the state looked up, then the transition.
ValidateClosure(cache, tm, block, block_root, parent, looked_up, merge, transition_ok, duration) ==
    LET state == UnwrapOrElse(looked_up, parent)
        checked == /\ merge_check_applies(block)
                   /\ post_bellatrix(block)
                   /\ is_merge_transition_block(state, block)
        r == PerformStateTransition(cache, tm, state, block, block_root,
                                    validate_block_process_slots, transition_ok, duration)
        stops == [state |-> state, checked |-> TRUE, merge |-> merge,
                  transitions |-> <<"validate_merge_block">>,
                  process_slots |-> None, queries |-> <<>>, hit |-> FALSE, failed |-> FALSE,
                  recorded |-> <<>>, cache |-> cache, timing_metrics |-> tm,
                  steps |-> <<"state_cache.before_or_at_slot", "validate_merge_block">>,
                  result |-> IF merge[1] = "Err" THEN merge
                             ELSE Ok(<<state, Some(ignore_action)>>)]
        goes_on == [state |-> state, checked |-> checked,
                    merge |-> IF checked THEN merge ELSE <<"None">>,
                    transitions |->
                        (IF checked THEN <<"validate_merge_block">> ELSE <<>>)
                        \o <<"perform_state_transition">>,
                    process_slots |-> validate_block_process_slots,
                    queries |-> <<r.query>>, hit |-> r.hit, failed |-> r.failed,
                    recorded |-> <<"perform_state_transition">>,
                    steps |-> <<"state_cache.before_or_at_slot">>
                              \o (IF checked THEN <<"validate_merge_block">> ELSE <<>>)
                              \o r.steps,
                    cache |-> r.cache, timing_metrics |-> r.timing_metrics,
                    result |-> IF r.result[1] = "Ok" THEN Ok(<<r.result[2], Absent>>)
                               ELSE r.result]
    IN  IF checked /\ merge # Ok("Accept") THEN stops ELSE goes_on

\* Store::validate_block_with_custom_state_transition, after the closure: its
\* error or its action is the answer, and without an action the block is
\* accepted with the state of the closure.
StoreValidated(closure) ==
    IF closure[1] = "Err" THEN closure
    ELSE IF closure[2][2][1] = "Some" THEN Ok(closure[2][2][2])
    ELSE Ok(<<"Accept", closure[2][1]>>)

\* validate_block(store, block, ..): the Store's hook runs the closure on
\* (block_root, parent), or answers by itself; the duration is recorded.
validate_block(block) ==
    /\ MayOperate
    /\ \E duration \in Elapsed :
        \/ \E parent \in Parents, merge \in PartialBlockActions, transition_ok \in BOOLEAN :
            \E looked_up \in BeforeOrAtSlot(state_cache, parent.block_root, block.slot) :
               \E c \in {ValidateClosure(state_cache, timing_metrics, block,
                                        HashTreeRoot(block), parent, looked_up, merge,
                                        transition_ok, duration)} :
                   /\ state_cache' = c.cache
                   /\ timing_metrics' =
                         update_metrics(c.timing_metrics, "validate_block", duration)
                   /\ op' = [name |-> "validate_block", block |-> block,
                             block_root |-> HashTreeRoot(block),
                             called |-> TRUE, parent |-> parent, looked_up |-> looked_up,
                             state |-> c.state, checked |-> c.checked, merge |-> c.merge,
                             transitions |-> c.transitions,
                             process_slots |-> c.process_slots,
                             queries |-> c.queries, hit |-> c.hit, failed |-> c.failed,
                             closure |-> c.result,
                             recorded |-> c.recorded \o <<"validate_block">>,
                             steps |-> c.steps \o update_metrics_steps("validate_block"),
                             result |-> StoreValidated(c.result)]
        \/ \E answer \in StoreAnswers :
               /\ state_cache' = state_cache
               /\ timing_metrics' = update_metrics(timing_metrics, "validate_block", duration)
               /\ op' = [name |-> "validate_block", block |-> block,
                         block_root |-> HashTreeRoot(block),
                         called |-> FALSE,
                         recorded |-> <<"validate_block">>,
                         steps |-> update_metrics_steps("validate_block"),
                         result |-> answer]
    /\ n_operations' = n_operations + 1
    /\ UNCHANGED <<eth1_api_vars, times, total, max_size, n_updates>>

\* Blocks are validated for gossip and in full, in any order.
NextValidation ==
    \/ \E block \in ValidatedBlocks : validate_block_for_gossip(block)
    \/ \E block \in ValidatedBlocks : validate_block(block)

SpecValidation == InitBlockProcessor /\ [][NextValidation]_vars

\* The state the callers of the cache-keyed operations hand in.
OperationState == BeaconState(1, FALSE, NoRoot)

\* Every operation of the Block Processor, called in any order.
NextOperations ==
    \/ \E block \in ProcessedBlocks :
         process_untrusted_block_with_report(OperationState, block, FALSE)
    \/ \E block \in ProcessedBlocks :
         process_trusted_block_with_report(OperationState, block)
    \/ \E block \in ProcessedBlocks :
         process_untrusted_blinded_block_with_report(OperationState, block, FALSE)
    \/ \E block \in ProcessedBlocks :
         process_trusted_blinded_block_with_report(OperationState, block)
    \/ \E block \in ProcessedBlocks :
         perform_state_transition(OperationState, block, HashTreeRoot(block),
                                  validate_block_process_slots)
    \/ NextValidation

SpecOperations == InitBlockProcessor /\ [][NextOperations]_vars

\* ------------------------------------------------------------ properties

\* The events of one kind in a request's trace, in order.
Select(tr, kind) == LET IsKind(e) == e[1] = kind IN SelectSeq(tr, IsKind)

Count(tr, kind) == Len(Select(tr, kind))

\* The URLs the request issued a call to, in order, and their positions in `original`.
CallUrls(tr) == [i \in 1..Count(tr, "call") |-> Select(tr, "call")[i][2]]

CallIndexes(tr) == [i \in 1..Count(tr, "call") |-> Select(tr, "call")[i][3]]

\* The outcomes of the calls that have completed, in order.
Outcomes(tr) == LET IsOutcome(e) == e[1] \in {"ok", "err"} IN SelectSeq(tr, IsOutcome)

\* The request of task t went into request_with_fallback.
Entered(t) == call[t].kind # None

Exhaustion == {"EndpointsExhausted", "NoEndpointsProvided"}

Returned(t, kind) == pc[t] = "done" /\ ResultKind(result[t]) = kind

\* C1 as claimed: a request running alone returns an error only after every
\* endpoint of the cursor it started on has been attempted and has failed.
C1_ErrorOnlyAfterAllFailed ==
    \A t \in Tasks :
        (pc[t] = "done" /\ alone[t] /\ Entered(t) /\ result[t][1] = "Err")
        => /\ CallUrls(trace[t]) = start_cursor[t]
           /\ Count(trace[t], "err") = Len(start_cursor[t])
           /\ Count(trace[t], "ok") = 0

\* C1, amended: a request running alone on a cursor holding e1..em attempts them
\* one at a time in that order; it returns the typed result of the first endpoint
\* whose call succeeds and attempts no later endpoint; it returns the exhaustion
\* error only after every endpoint of the cursor has failed; and the only other
\* error it returns is that of producing the headers or building the call, which
\* is returned at once, with every endpoint before the current one having failed.
C1_FallbackInOrder ==
    \A t \in Tasks :
        (alone[t] /\ Entered(t)) =>
            LET urls == CallUrls(trace[t])
                outs == Outcomes(trace[t])
                first == Len(original) - Len(start_cursor[t]) + 1
            IN  /\ IsPrefix(urls, start_cursor[t])
                /\ \A i \in 1..Len(urls) : CallIndexes(trace[t])[i] = first + i - 1
                /\ Len(urls) - 1 <= Len(outs) /\ Len(outs) <= Len(urls)
                /\ \A i \in 1..Len(outs) :
                     /\ outs[i][2] = urls[i]
                     /\ outs[i][1] = "ok" => (i = Len(urls) /\ Returned(t, "Ok"))
                /\ Returned(t, "Ok") =>
                     /\ Len(outs) = Len(urls) /\ Len(outs) >= 1
                     /\ outs[Len(outs)][1] = "ok"
                     /\ outs[Len(outs)][3] \in Responses(call[t])
                     /\ result[t] = Ok(Convert(call[t], outs[Len(outs)][3]))
                /\ (pc[t] = "done" /\ ResultKind(result[t]) \in Exhaustion) =>
                     /\ urls = start_cursor[t]
                     /\ Len(outs) = Len(urls)
                     /\ \A i \in 1..Len(outs) : outs[i][1] = "err"
                /\ Returned(t, "HeadersError") =>
                     /\ Len(outs) = Len(urls) /\ Len(urls) < Len(start_cursor[t])
                     /\ \A i \in 1..Len(outs) : outs[i][1] = "err"
                     /\ url[t] = start_cursor[t][Len(urls) + 1]
                /\ pc[t] = "done" =>
                     ResultKind(result[t]) \in {"Ok", "HeadersError"} \cup Exhaustion

\* C1's case: alone on a cursor of two endpoints, the first fails and the second answers.
C1_Witness ==
    \E t \in Tasks :
        /\ Returned(t, "Ok") /\ alone[t]
        /\ Len(start_cursor[t]) = 2
        /\ CallUrls(trace[t]) = start_cursor[t]
        /\ Outcomes(trace[t])[1][1] = "err"

\* Some request leaves the state named by `from` for the state named by `to`.
Moves(t, from, to) == pc[t] = from /\ pc'[t] = to

C2_ExhaustedState ==
    \A t \in Tasks :
        /\ pc[t] = "reset" => endpoints = <<>>
        /\ (pc[t] = "done" /\ Entered(t) /\ ResultKind(result[t]) \in Exhaustion) =>
             /\ endpoints = original
             /\ result[t] = Err(IF original = <<>> THEN "NoEndpointsProvided"
                                ELSE "EndpointsExhausted")
             /\ Count(trace[t], "reset") = 1
             /\ Count(trace[t], "inc_reset") = (IF metrics THEN 1 ELSE 0)
        /\ original = <<>> =>
             /\ Count(trace[t], "call") = 0
             /\ (pc[t] = "done" /\ Entered(t)) => Returned(t, "NoEndpointsProvided")
        /\ started = 0 => (result[t] = NoResult /\ pc[t] = "idle")

C2_ExhaustedStep ==
    /\ \A t \in Tasks :
         Moves(t, "reset", "done") =>
            /\ endpoints' = original
            /\ eth1_api_reset_count' = eth1_api_reset_count + (IF metrics THEN 1 ELSE 0)
            /\ ResultKind(result'[t]) \in Exhaustion
    /\ eth1_api_reset_count' # eth1_api_reset_count =>
         \E t \in Tasks : Moves(t, "reset", "done")

\* C2: once a request finds the cursor exhausted it resets the cursor to the full
\* original sequence, increments the reset counter once (when the client has
\* metrics) and fails with NoEndpointsProvided if original is empty and with
\* EndpointsExhausted otherwise; with an empty original no HTTP call is issued,
\* and no error exists before a call is attempted.
C2_ResetOnExhaustion == []C2_ExhaustedState /\ [][C2_ExhaustedStep]_vars

\* C2's case: a client built without endpoints has answered its first call.
C2_Witness ==
    \E t \in Tasks :
        /\ Returned(t, "NoEndpointsProvided")
        /\ original = <<>> /\ trace[t] # <<>> /\ Count(trace[t], "call") = 0
        /\ metrics /\ eth1_api_reset_count = 1

FirstIndex(t) == CallIndexes(trace[t])[1]

\* C4 as claimed: a request does not start below a live endpoint: no URL that
\* precedes in original the endpoint it attempts first is live at the time,
\* other than the URL attempted itself.
C4_StartsAtBestLive ==
    \A t \in Tasks :
        (pc[t] = "call" /\ Count(trace[t], "call") = 1 /\ stable[t] /\ alone[t]) =>
            \A j \in 1..(FirstIndex(t) - 1) :
                original[j] \in live => original[j] = CallUrls(trace[t])[1]

\* C4, amended: failover pins to the head of the shared cursor: the endpoint a
\* request attempts first is the one the cursor was left on, a successful call
\* (or a failure to build the call) leaves the cursor on the endpoint it was
\* made to, so a failure in one request moves the start of later requests down
\* the list until the cursor is exhausted and reset, whether or not the failed
\* endpoint is live again.
C4_StartsAtCursor ==
    \A t \in Tasks :
        (alone[t] /\ Entered(t)) =>
            /\ Count(trace[t], "call") >= 1 =>
                 /\ start_cursor[t] # <<>>
                 /\ CallUrls(trace[t])[1] = start_cursor[t][1]
                 /\ FirstIndex(t) = Len(original) - Len(start_cursor[t]) + 1
            /\ Returned(t, "Ok") =>
                 /\ endpoints # <<>> /\ endpoints[1] = url[t]
                 /\ CursorIndex = CallIndexes(trace[t])[Count(trace[t], "call")]
            /\ Returned(t, "HeadersError") =>
                 /\ endpoints # <<>> /\ endpoints[1] = url[t]
                 /\ Len(endpoints) = Len(start_cursor[t]) - Count(trace[t], "call")
            /\ InProgress(t) =>
                 Len(endpoints) = Len(start_cursor[t]) - Count(trace[t], "next")

\* C4's case: a request starts on the second endpoint while the first one is live.
C4_Witness ==
    \E t \in Tasks :
        /\ pc[t] = "call" /\ Count(trace[t], "call") = 1 /\ stable[t] /\ alone[t]
        /\ FirstIndex(t) = 2 /\ original[1] \in live /\ original[1] # original[2]
        /\ prev_result[t] = "Ok"

\* C5 as claimed: after a request has failed with EndpointsExhausted the cursor
\* holds the full original sequence whenever a later request may begin, and a
\* request that follows one that failed with EndpointsExhausted first attempts
\* original[0] and succeeds if an endpoint is live.
C5_LaterRequestSucceeds ==
    \A t \in Tasks :
        /\ (Returned(t, "EndpointsExhausted") /\ last_result = "EndpointsExhausted"
              /\ \A x \in Tasks \ {t} : InProgress(x) => ~alone[x])
             => endpoints = original
        /\ (prev_result[t] = "EndpointsExhausted" /\ alone[t] /\ Entered(t)) =>
             /\ Count(trace[t], "call") >= 1 => FirstIndex(t) = 1
             /\ (pc[t] = "done" /\ stable[t] /\ \E i \in 1..Len(original) : original[i] \in live)
                  => Returned(t, "Ok")

\* C5, amended: a request that fails with EndpointsExhausted leaves the cursor
\* equal to the full original sequence, and the cursor stays so until a request
\* moves it again -- which a request that was in flight beside the failed one
\* may do at once.  A later request that begins on the full cursor and runs
\* alone attempts original[0] first and, if some endpoint is live throughout,
\* returns the result of the first live one, unless the authorization headers
\* or the call cannot be built, in which case that error is returned.
C5_ResetLetsLaterRequestSucceed ==
    \A t \in Tasks :
        /\ (Returned(t, "EndpointsExhausted") /\ last_result = "EndpointsExhausted"
              /\ \A x \in Tasks \ {t} : ~InProgress(x))
             => endpoints = original
        /\ (prev_result[t] = "EndpointsExhausted" /\ alone[t] /\ Entered(t)
              /\ start_cursor[t] = original) =>
             /\ Count(trace[t], "call") >= 1 =>
                  FirstIndex(t) = 1 /\ CallUrls(trace[t])[1] = original[1]
             /\ (pc[t] = "done" /\ stable[t] /\ \E i \in 1..Len(original) : original[i] \in live)
                  => \/ /\ Returned(t, "Ok")
                        /\ url[t] \in live
                        /\ \A k \in 1..(Count(trace[t], "call") - 1) :
                             original[k] \notin live
                     \/ Returned(t, "HeadersError")

\* C5's case: the request after one that failed with EndpointsExhausted starts
\* at original[0], which is still down, and is answered by the second endpoint.
C5_Witness ==
    \E t \in Tasks :
        /\ prev_result[t] = "EndpointsExhausted" /\ alone[t] /\ stable[t]
        /\ start_cursor[t] = original
        /\ Returned(t, "Ok") /\ Count(trace[t], "call") = 2

\* The telemetry events of a request that report `connected` as c.
Telemetry(tr, c) ==
    LET IsSuch(e) == e[1] = "telemetry" /\ e[2] = c IN SelectSeq(tr, IsSuch)

\* The position in `original` of the call made last.
LastIndex(t) == CallIndexes(trace[t])[Count(trace[t], "call")]

\* C6 as claimed: a call served by original[k] emits exactly one event
\* {connected=true, fallback=(k>0)}, and each failed call emits
\* {connected=false, fallback=false} exactly once, for every list of URLs.
C6_FallbackByPosition ==
    \A t \in Tasks :
        (eth1_api_to_metrics_tx /\ Entered(t)) =>
            /\ Returned(t, "Ok") =>
                 Telemetry(trace[t], TRUE) = <<Event("telemetry", TRUE, LastIndex(t) > 1)>>
            /\ Len(Telemetry(trace[t], FALSE)) = Count(trace[t], "warn")

\* C6, amended: with a telemetry channel, a successful call emits exactly one
\* event {connected=true, fallback=f} where f tells whether the URL that served
\* it differs from the URL original[0] (so a call served by original[k], k>0,
\* reports fallback=false when that URL equals original[0]), and each failed
\* call emits {connected=false, fallback=false} exactly once; without a channel
\* nothing is emitted.
C6_FallbackByUrl ==
    \A t \in Tasks :
        Entered(t) =>
            /\ ~eth1_api_to_metrics_tx => Count(trace[t], "telemetry") = 0
            /\ eth1_api_to_metrics_tx =>
                 /\ Returned(t, "Ok") =>
                      /\ Telemetry(trace[t], TRUE) =
                           <<Event("telemetry", TRUE, url[t] # original[1])>>
                      /\ trace[t][Len(trace[t])][1] = "telemetry"
                      /\ trace[t][Len(trace[t])][2]
                 /\ ~Returned(t, "Ok") => Telemetry(trace[t], TRUE) = <<>>
                 /\ \A k \in 1..Len(Telemetry(trace[t], FALSE)) :
                      ~Telemetry(trace[t], FALSE)[k][3]
                 /\ Len(Telemetry(trace[t], FALSE)) =
                      Count(trace[t], "err") - (IF pc[t] = "peek" THEN 1 ELSE 0)

\* C6's case: the first endpoint fails and the second, another URL, answers.
C6_Witness ==
    \E t \in Tasks :
        /\ Returned(t, "Ok") /\ eth1_api_to_metrics_tx
        /\ LastIndex(t) = 2 /\ url[t] # original[1]
        /\ Telemetry(trace[t], TRUE) = <<Event("telemetry", TRUE, TRUE)>>
        /\ Len(Telemetry(trace[t], FALSE)) = 1

C7_CountsState ==
    \A t \in Tasks :
        Entered(t) =>
            /\ Count(trace[t], "inc_errors") = (IF metrics THEN Count(trace[t], "err") ELSE 0)
            /\ Count(trace[t], "inc_reset") = (IF metrics THEN Count(trace[t], "reset") ELSE 0)
            /\ Count(trace[t], "reset") =
                 (IF pc[t] = "done" /\ ResultKind(result[t]) \in Exhaustion THEN 1 ELSE 0)
            /\ (pc[t] = "done" /\ alone[t] /\ Count(trace[t], "ok") = 0
                  /\ ~Returned(t, "HeadersError")) =>
                 /\ ResultKind(result[t]) \in Exhaustion
                 /\ original # <<>> => Returned(t, "EndpointsExhausted")
                 /\ Count(trace[t], "err") = Len(start_cursor[t])
                 /\ CallUrls(trace[t]) = start_cursor[t]
                 /\ Len(Telemetry(trace[t], FALSE)) =
                      (IF eth1_api_to_metrics_tx THEN Len(start_cursor[t]) ELSE 0)

C7_CountsStep ==
    /\ eth1_api_errors_count' =
         eth1_api_errors_count +
           (IF metrics /\ \E t \in Tasks : Moves(t, "call", "peek") THEN 1 ELSE 0)
    /\ eth1_api_reset_count' =
         eth1_api_reset_count +
           (IF metrics /\ \E t \in Tasks : Moves(t, "reset", "done") THEN 1 ELSE 0)

C8_DispatchState ==
    \A t \in Tasks :
        args[t][1] = "new_payload" =>
            LET payload == args[t][2]
                params == args[t][3]
                none == params[1] = "None"
                deneb == params[1] = "Some" /\ params[2].variant = "Deneb"
                Called(method, ps) ==
                    /\ call[t].kind = "new_payload"
                    /\ call[t].method = method
                    /\ call[t].params = ps
                    /\ call[t].timeout = 8
                    /\ ~Returned(t, "InvalidParameters")
            IN  CASE payload.phase = "Bellatrix" /\ none ->
                        Called("engine_newPayloadV1",
                               <<[payload_version |-> 1, body |-> payload.body]>>)
                  [] payload.phase = "Capella" /\ none ->
                        Called("engine_newPayloadV2",
                               <<[payload_version |-> 2, body |-> payload.body]>>)
                  [] payload.phase = "Deneb" /\ deneb ->
                        Called("engine_newPayloadV3",
                               <<[payload_version |-> 3, body |-> payload.body],
                                 params[2].versioned_hashes,
                                 params[2].parent_beacon_block_root>>)
                  [] OTHER ->
                        /\ result[t] = Err("InvalidParameters")
                        /\ pc[t] = "done"
                        /\ call[t] = NoCall
                        /\ trace[t] = <<>>

C8_DispatchStep ==
    \A t \in Tasks :
        (args'[t][1] = "new_payload" /\ Moves(t, "idle", "done")) =>
            /\ endpoints' = endpoints
            /\ eth1_api_errors_count' = eth1_api_errors_count
            /\ eth1_api_reset_count' = eth1_api_reset_count

\* C8: new_payload selects the method from the (payload phase, params) pair:
\* (Bellatrix, none) calls engine_newPayloadV1 with [payload], (Capella, none)
\* engine_newPayloadV2 with [payload], (Deneb, Deneb{hashes, parent_root})
\* engine_newPayloadV3 with [payload, hashes, parent_root]; every other pair
\* fails with InvalidParameters, issues no HTTP request and leaves the cursor
\* (and the counters) as they were.
C8_NewPayloadDispatch == []C8_DispatchState /\ [][C8_DispatchStep]_vars

\* C8's case: a Deneb payload without params is refused while the cursor stands
\* on the second endpoint.
C8_Witness ==
    \E t \in Tasks :
        /\ Returned(t, "InvalidParameters")
        /\ args[t][1] = "new_payload"
        /\ args[t][2].phase = "Deneb" /\ args[t][3][1] = "None"
        /\ Len(original) = 2 /\ Len(endpoints) = 1 /\ eth1_api_errors_count = 1

\* C9: forkchoice_updated takes the phase from the payload attributes when
\* present and otherwise from the phase marker, calls
\* engine_forkchoiceUpdatedV1/V2/V3 for Bellatrix/Capella/Deneb with the fork
\* choice state and the attributes (or null), and returns the payload id of the
\* response tagged with that same phase.
C9_ForkchoiceUpdatedDispatch ==
    \A t \in Tasks :
        args[t][1] = "forkchoice_updated" =>
            LET pa == args[t][5]
                phase == IF pa[1] = "Right" THEN pa[2].phase ELSE pa[2]
            IN  phase \in PostMergePhases =>
                  /\ call[t].kind = "forkchoice_updated"
                  /\ call[t].method =
                       (CASE phase = "Bellatrix" -> "engine_forkchoiceUpdatedV1"
                          [] phase = "Capella" -> "engine_forkchoiceUpdatedV2"
                          [] phase = "Deneb" -> "engine_forkchoiceUpdatedV3")
                  /\ call[t].timeout = 8
                  /\ Len(call[t].params) = 2
                  /\ call[t].params[1] =
                       [head_block_hash |-> args[t][2], safe_block_hash |-> args[t][3],
                        finalized_block_hash |-> args[t][4]]
                  /\ IF pa[1] = "Right" THEN call[t].params[2] = pa[2]
                     ELSE call[t].params[2] = None
                  /\ ~Returned(t, "PhasePreBellatrix")
                  /\ Returned(t, "Ok") =>
                       LET raw == Select(trace[t], "ok")[1][3]
                       IN  /\ result[t][2].payload_status = raw.payload_status
                           /\ result[t][2].payload_id =
                                (IF raw.payload_id = None THEN None
                                 ELSE <<phase, raw.payload_id>>)

\* C9's case: Capella attributes are passed and the response carries a payload id.
C9_Witness ==
    \E t \in Tasks :
        /\ Returned(t, "Ok")
        /\ args[t][1] = "forkchoice_updated"
        /\ args[t][5][1] = "Right" /\ args[t][5][2].phase = "Capella"
        /\ call[t].method = "engine_forkchoiceUpdatedV2"
        /\ Select(trace[t], "ok")[1][3].payload_id = "id1"
        /\ result[t][2].payload_id = <<"Capella", "id1">>

C10_PreBellatrixState ==
    \A t \in Tasks :
        (args[t][1] = "forkchoice_updated" /\ args[t][5][1] = "Left"
           /\ args[t][5][2] \in {"Phase0", "Altair"}) =>
            /\ pc[t] = "done"
            /\ result[t] = Err("PhasePreBellatrix")
            /\ call[t] = NoCall
            /\ trace[t] = <<>>

C10_PreBellatrixStep ==
    \A t \in Tasks :
        (args'[t][1] = "forkchoice_updated" /\ Moves(t, "idle", "done")) =>
            /\ result'[t] = Err("PhasePreBellatrix")
            /\ endpoints' = endpoints
            /\ eth1_api_errors_count' = eth1_api_errors_count
            /\ eth1_api_reset_count' = eth1_api_reset_count
            /\ trace'[t] = <<>>

\* C10: forkchoice_updated called with the phase marker Phase0 or Altair returns
\* PhasePreBellatrix without issuing an HTTP request, and the call leaves the
\* endpoint cursor and both counters as they were and emits no telemetry.
C10_PreBellatrixRefused == []C10_PreBellatrixState /\ [][C10_PreBellatrixStep]_vars

\* C10's case: Altair is refused while the cursor stands on the second endpoint
\* and an error has been counted.
C10_Witness ==
    \E t \in Tasks :
        /\ Returned(t, "PhasePreBellatrix")
        /\ args[t][5] = <<"Left", "Altair">>
        /\ Len(original) = 2 /\ Len(endpoints) = 1 /\ eth1_api_errors_count = 1

\* C11: get_payload selects the method from the tag of the payload id alone:
\* Bellatrix calls engine_getPayloadV1, Capella engine_getPayloadV2, Deneb
\* engine_getPayloadV3, each with the untagged id as the only parameter, and
\* the payload of the returned envelope has the phase of the id's tag.
C11_GetPayloadDispatch ==
    \A t \in Tasks :
        args[t][1] = "get_payload" =>
            LET payload_id == args[t][2]
            IN  /\ call[t].kind = "get_payload"
                /\ call[t].method =
                     (CASE payload_id[1] = "Bellatrix" -> "engine_getPayloadV1"
                        [] payload_id[1] = "Capella" -> "engine_getPayloadV2"
                        [] payload_id[1] = "Deneb" -> "engine_getPayloadV3")
                /\ call[t].params = <<payload_id[2]>>
                /\ call[t].timeout = 1
                /\ Returned(t, "Ok") =>
                     /\ result[t][2].phase = payload_id[1]
                     /\ result[t][2].payload = Select(trace[t], "ok")[1][3]

\* C11's case: a Capella id is redeemed and a Capella payload comes back.
C11_Witness ==
    \E t \in Tasks :
        /\ Returned(t, "Ok")
        /\ args[t][1] = "get_payload" /\ args[t][2][1] = "Capella"
        /\ call[t].method = "engine_getPayloadV2"
        /\ result[t][2].phase = "Capella"

\* The errors request_with_fallback recovers from happen inside a call ("err"
\* events); these are made by the conversions after it has returned.
ConversionErrors == {"DepositEventError", "Eth1BlockError"}

ConfigurationErrors == {"InvalidParameters", "PhasePreBellatrix", "NoEndpointsProvided"}

\* C12 as claimed: a decoding error is never returned to the caller while an
\* endpoint remains in the cursor.
C12_DecodingErrorsFailOver ==
    \A t \in Tasks :
        (pc[t] = "done" /\ ResultKind(result[t]) \in ConversionErrors) => endpoints = <<>>

\* C12, amended: an error of the HTTP call or of decoding its JSON result into
\* the requested type is never returned to the caller: the request fails over,
\* and ends in an error only once the cursor is exhausted (EndpointsExhausted).
\* A log that does not decode into a deposit event, or a block that does not
\* convert into an Eth1Block, is an error of the conversion made after the call
\* has succeeded: it is returned to the caller at once, without failover,
\* whatever endpoints remain; so is a failure to produce the authorization
\* headers.  InvalidParameters, PhasePreBellatrix and NoEndpointsProvided are
\* returned to the caller as they are.
C12_ErrorPolicy ==
    \A t \in Tasks :
        pc[t] = "done" =>
            LET kind == ResultKind(result[t])
                outs == Outcomes(trace[t])
                answered == outs # <<>> /\ outs[Len(outs)][1] = "ok"
                v == outs[Len(outs)][3]
            IN  /\ kind \in {"Ok", "HeadersError", "EndpointsExhausted"}
                              \cup ConversionErrors \cup ConfigurationErrors
                /\ kind \in {"Ok"} \cup ConversionErrors <=> answered
                /\ ~answered =>
                     \/ kind = "HeadersError" /\ endpoints # <<>>
                     \/ kind \in Exhaustion /\ Count(trace[t], "reset") = 1
                                            /\ endpoints = original
                     \/ kind \in {"InvalidParameters", "PhasePreBellatrix"}
                          /\ ~Entered(t) /\ trace[t] = <<>>
                /\ kind = "NoEndpointsProvided" <=> (Entered(t) /\ original = <<>>)
                /\ kind = "InvalidParameters" <=>
                     (args[t][1] = "new_payload" /\ ~Entered(t))
                /\ kind = "PhasePreBellatrix" <=>
                     (args[t][1] = "forkchoice_updated" /\ ~Entered(t))
                /\ kind = "DepositEventError" <=>
                     /\ answered /\ call[t].kind = "logs"
                     /\ \E i \in 1..Len(v) :
                          v[i].block_number[1] = "Some" /\ v[i].data = "malformed"
                /\ kind = "Eth1BlockError" <=>
                     /\ answered /\ call[t].kind = "block"
                     /\ v[1] = "Some" /\ v[2] = "malformed"
                /\ \A i \in 1..(Len(outs) - 1) : outs[i][1] = "err"

\* C12's case: the first endpoint answers with a log that does not decode and
\* the error is returned although a second endpoint remains.
C12_Witness ==
    \E t \in Tasks :
        /\ Returned(t, "DepositEventError")
        /\ Count(trace[t], "err") = 0
        /\ peek_next_endpoint # None

RECURSIVE Sum(_)
Sum(s) == IF s = <<>> THEN 0 ELSE Head(s) + Sum(Tail(s))

Minimum(a, b) == IF a <= b THEN a ELSE b

\* C13: for every capacity and every sequence of updates, count is the smaller
\* of the number of updates and the capacity, total is the sum of the window,
\* and the window holds count samples, at most capacity.
C13_WindowBounded ==
    /\ count = Minimum(n_updates, max_size)
    /\ total = Sum(times)
    /\ Len(times) = count
    /\ count <= max_size

\* The number of times d occurs in s.
Occurrences(s, d) == Cardinality({i \in 1..Len(s) : s[i] = d})

\* The window in ascending order: the ascending sequence with the same samples.
Ascending ==
    CHOOSE q \in [1..Len(times) -> Range(times)] :
        /\ \A i \in 1..(Len(times) - 1) : q[i] <= q[i + 1]
        /\ \A d \in Range(times) : Occurrences(q, d) = Occurrences(times, d)

\* C14: the median of a window of n samples is
\* (sorted[floor(n/2)] + sorted[n-1-floor(n/2)]) / 2 in duration arithmetic (whole
\* nanoseconds): the middle element for odd n, the mean of the two central
\* elements for even n; min, max, average, median and last are absent exactly
\* when the window is empty.
C14_MedianAndAbsence ==
    LET n == Len(times)
        half == n \div 2
    IN  /\ \A q \in {min, max, average, median, last} : q = Absent <=> n = 0
        /\ n > 0 =>
             /\ median = Some((Ascending[half + 1] + Ascending[n - half]) \div 2)
             /\ n % 2 = 1 => median = Some(Ascending[half + 1])
             /\ n % 2 = 0 =>
                  /\ 2 * median[2] <= Ascending[half] + Ascending[half + 1]
                  /\ Ascending[half] + Ascending[half + 1] <= 2 * median[2] + 1
             /\ min = Some(Ascending[1])
             /\ max = Some(Ascending[n])
             /\ last = Some(times[n])

\* C14's case: a window of two samples out of order, after the oldest sample
\* has left it; the median is their mean.
C14_Witness ==
    /\ max_size = 2 /\ n_updates = 3
    /\ times = <<3, 1>>
    /\ median = Some(2)

\* The names of the four with-report operations.
WithReportNames ==
    {"process_untrusted_block", "process_trusted_block",
     "process_untrusted_blinded_block", "process_trusted_blinded_block"}

\* The last operation was one of the four with-report operations.
WithReport_done == op.name \in WithReportNames

\* The last operation was perform_state_transition.
Transition_done == op.name = "perform_state_transition"

\* Entries with flag false hold rewards (stored by a with-report operation),
\* entries with flag true hold none (stored by perform_state_transition), and a
\* finished operation has asked the cache once, under its own key and flag.
C15_KeysState ==
    /\ \A e \in state_cache : e.flag = (e.rewards = Absent)
    /\ WithReport_done =>
          op.queries = <<<<HashTreeRoot(op.block), op.block.slot, FALSE>>>>
    /\ Transition_done =>
          op.queries = <<<<op.block_root, op.block.slot, TRUE>>>>

\* What a hit returns was stored under the flag of the operation.
C15_KeysStep ==
    /\ (op'.name \in WithReportNames /\ op'.hit) =>
          \E e \in state_cache :
             /\ e.block_root = HashTreeRoot(op'.block) /\ e.slot = op'.block.slot
             /\ e.flag = FALSE
             /\ op'.result = Ok(<<e.state, e.rewards>>)
    /\ (op'.name = "perform_state_transition" /\ op'.hit) =>
          \E e \in state_cache :
             /\ e.block_root = op'.block_root /\ e.slot = op'.block.slot
             /\ e.flag = TRUE
             /\ op'.result = Ok(e.state)

\* C15: the four with-report operations ask the state cache for (block
\* hash-tree-root, block slot) with flag false, perform_state_transition for
\* (block_root argument, block slot) with flag true; for one (root, slot) what
\* a with-report operation stored is never returned by
\* perform_state_transition, and the other way round.
C15_KeysAndFlags == []C15_KeysState /\ [][C15_KeysStep]_vars

\* A with-report operation has stored a result for a (root, slot), and
\* perform_state_transition for the same (root, slot) computed and stored its
\* own, different state next to it.
C15_Witness ==
    /\ Transition_done /\ ~op.hit /\ op.result[1] = "Ok"
    /\ op.block_root = HashTreeRoot(op.block)
    /\ \E e \in state_cache :
          /\ e.block_root = op.block_root /\ e.slot = op.block.slot
          /\ e.flag = FALSE /\ e.state # op.result[2]
    /\ \E e \in state_cache :
          /\ e.block_root = op.block_root /\ e.slot = op.block.slot
          /\ e.flag = TRUE /\ e.state = op.result[2]

\* The last operation was one of the five cache-keyed operations.
CacheKeyed_done == WithReport_done \/ Transition_done

\* The entries of the cache under the key of the last operation.
CachedForOp(cache, o) == Cached(cache, o.queries[1][1], o.queries[1][2], o.queries[1][3])

\* An operation returns an error only if its transition failed.
C19_ErrorState ==
    CacheKeyed_done => (op.failed <=> op.result[1] = "Err")

\* A failed transition leaves the cache as it was, and its error is the result.
C19_ErrorStep ==
    (op'.name \in WithReportNames \cup {"perform_state_transition"} /\ op'.failed) =>
        /\ op'.result = Err("TransitionError")
        /\ state_cache' = state_cache
        /\ CachedForOp(state_cache', op') = {}

\* C19: when the external state transition fails inside a cache-keyed
\* operation, the operation returns that error unchanged, and the state cache
\* holds the entries it held before the call: none is stored for the key.
C19_TransitionErrorPropagates == []C19_ErrorState /\ [][C19_ErrorStep]_vars

\* A transition has failed on a cache that already held an entry of an
\* earlier operation.
C19_Witness ==
    /\ CacheKeyed_done /\ op.failed /\ op.result = Err("TransitionError")
    /\ state_cache # {}
    /\ CachedForOp(state_cache, op) = {}

\* The Store has run the closure of the last validate_block.
Validate_done == op.name = "validate_block" /\ op.called

\* The Store has run the closure of the last validate_block_for_gossip.
Gossip_done == op.name = "validate_block_for_gossip" /\ op.called

\* The number of durations recorded under a name.
Recorded(tm, name) == IF name \in DOMAIN tm THEN Len(tm[name].times) ELSE 0

\* The closure of validate_block, by the answer of validate_merge_block.
C16_MergeState ==
    Validate_done =>
        /\ op.state = UnwrapOrElse(op.looked_up, op.parent)
        /\ (op.checked /\ op.merge = Ok("Ignore")) =>
              /\ op.transitions = <<"validate_merge_block">>
              /\ op.queries = <<>>
              /\ op.closure = Ok(<<op.state, Some(<<"Ignore", FALSE>>)>>)
        /\ (~op.checked \/ op.merge = Ok("Accept")) =>
              /\ op.transitions =
                    (IF op.checked THEN <<"validate_merge_block">> ELSE <<>>)
                    \o <<"perform_state_transition">>
              /\ op.process_slots = "IfNeeded"
              /\ op.queries = <<<<HashTreeRoot(op.block), op.block.slot, TRUE>>>>
              /\ op.failed => op.closure = Err("TransitionError")
              /\ ~op.failed =>
                    /\ op.closure[1] = "Ok"
                    /\ op.closure[2][2] = Absent
                    /\ ~op.hit =>
                          op.closure[2][1] =
                              CustomStateTransition(op.state, op.block, "IfNeeded")

\* An ignored merge block leaves the cache and the transition's metrics alone;
\* a transition that ran and missed the cache stored its state under flag true.
C16_MergeStep ==
    (op'.name = "validate_block" /\ op'.called) =>
        /\ (op'.checked /\ op'.merge = Ok("Ignore")) =>
              /\ state_cache' = state_cache
              /\ Recorded(timing_metrics', "perform_state_transition")
                    = Recorded(timing_metrics, "perform_state_transition")
        /\ ((~op'.checked \/ op'.merge = Ok("Accept")) /\ ~op'.failed) =>
              /\ \E e \in state_cache' :
                    /\ e.block_root = HashTreeRoot(op'.block) /\ e.slot = op'.block.slot
                    /\ e.flag = TRUE /\ e.state = op'.closure[2][1]
              /\ Recorded(timing_metrics', "perform_state_transition")
                    = Recorded(timing_metrics, "perform_state_transition") + 1

\* C16: in validate_block the merge-transition check is made on the state
\* looked up, before the transition.  On Ignore the closure returns that state
\* unchanged with the action Ignore(false) and perform_state_transition is not
\* invoked (nothing is stored under flag true); on Accept, or for a block that
\* is not a merge-transition block, perform_state_transition is invoked with
\* ProcessSlots::IfNeeded and the closure returns the new state and no action.
C16_MergeCheckBeforeTransition == []C16_MergeState /\ [][C16_MergeStep]_vars

\* A merge-transition block on a cached pre-merge state was ignored, and
\* nothing is cached for it.
C16_Witness ==
    /\ Validate_done /\ op.checked /\ op.merge = Ok("Ignore")
    /\ op.looked_up[1] = "Some" /\ ~op.state.merge_complete
    /\ op.closure = Ok(<<op.state, Some(<<"Ignore", FALSE>>)>>)
    /\ Cached(state_cache, HashTreeRoot(op.block), op.block.slot, TRUE) = {}

\* C17: whether the merge-transition check is made is decided by the phase of
\* the block: validate_merge_block is invoked exactly when the block's phase is
\* before Capella and its post-Bellatrix body is a merge-transition block for
\* the state looked up, and never for a block of Capella or later.
C17_PhaseDecides ==
    Validate_done =>
        /\ op.checked <=>
              /\ op.block.phase \in {"Phase0", "Altair", "Bellatrix"}
              /\ op.block.phase \in PostMergePhases
              /\ is_merge_transition_block(op.state, op.block)
        /\ op.checked <=> \E i \in DOMAIN op.transitions :
                              op.transitions[i] = "validate_merge_block"
        /\ op.block.phase \in {"Capella", "Deneb"} => ~op.checked

\* A Capella block with a payload was validated on a pre-merge state of an
\* earlier slot without the check, and it went through the transition.
C17_Witness ==
    /\ Validate_done /\ op.block.phase = "Capella" /\ ~op.checked
    /\ is_merge_transition_block(op.state, op.block)
    /\ op.state.slot < op.block.slot
    /\ op.transitions = <<"perform_state_transition">>
    /\ op.closure[1] = "Ok"

\* The closure of validate_block_for_gossip.
C18_GossipState ==
    Gossip_done =>
        /\ op.state = IF op.looked_up[1] = "Some" THEN op.looked_up[2] ELSE op.parent.state
        /\ op.looked_up[1] = "Some" =>
              \E e \in state_cache : /\ e.block_root = op.parent.block_root
                                      /\ e.slot <= op.block.slot
                                      /\ e.state = op.looked_up[2]
        /\ (op.state.slot < op.block.slot) <=>
              (op.transitions # <<>> /\ op.transitions[1] = "process_slots")
        /\ op.gossip_state[1] = "Some" =>
              /\ op.transitions[Len(op.transitions)] = "process_block_for_gossip"
              /\ op.gossip_state[2] =
                    IF op.state.slot < op.block.slot
                    THEN ProcessSlotsTo(op.state, op.block.slot) ELSE op.state
        /\ op.closure[1] = "Ok" =>
              /\ op.closure = Ok(Absent)
              /\ op.gossip_state[1] = "Some"
        /\ Len(op.transitions) \in 1..2

\* validate_block_for_gossip leaves the cache as it is.
C18_GossipStep ==
    op'.name = "validate_block_for_gossip" => state_cache' = state_cache

\* C18: in validate_block_for_gossip the state is the cached state at or
\* before (parent root, block slot), or else the state materialized for the
\* parent; process_slots is invoked exactly when that state's slot is below the
\* block's slot, process_block_for_gossip runs on the resulting state, the
\* closure returns no action, and nothing is inserted into the state cache.
C18_GossipValidation == []C18_GossipState /\ [][C18_GossipStep]_vars

\* A block of slot 2 was validated for gossip on a cached state of slot 1:
\* slots were processed, the block was checked on the advanced state.
C18_Witness ==
    /\ Gossip_done /\ op.looked_up[1] = "Some"
    /\ op.state.slot < op.block.slot
    /\ op.transitions = <<"process_slots", "process_block_for_gossip">>
    /\ op.gossip_state = Some(ProcessSlotsTo(op.state, op.block.slot))
    /\ op.closure = Ok(Absent)
    /\ state_cache # {}

\* C20: the block rewards of a slot report have total == attestations +
\* sync_aggregate + proposer_slashings + attester_slashings, where
\* attestations, proposer_slashings and attester_slashings are the sums of
\* their lists of rewards and sync_aggregate is the total of the sync
\* aggregate rewards, or 0 without them; all components are reported, zero or
\* not.
C20_BlockRewards ==
    op.name = "block_rewards" =>
        LET r == op.block_rewards
            report == op.slot_report
        IN  /\ DOMAIN r = {"total", "attestations", "sync_aggregate",
                           "proposer_slashings", "attester_slashings"}
            /\ r.attestations = Sum(report.attestation_rewards)
            /\ r.proposer_slashings = Sum(report.slashing_rewards.Proposer)
            /\ r.attester_slashings = Sum(report.slashing_rewards.Attester)
            /\ r.sync_aggregate = IF report.sync_aggregate_rewards = Absent THEN 0
                                  ELSE report.sync_aggregate_rewards[2].total
            /\ r.total = r.attestations + r.sync_aggregate
                          + r.proposer_slashings + r.attester_slashings

\* The rewards of a report with two attestations, a sync aggregate, one
\* attester slashing and no proposer slashing: the empty component is 0.
C20_Witness ==
    /\ op.name = "block_rewards"
    /\ op.slot_report.attestation_rewards = <<1, 2>>
    /\ op.slot_report.sync_aggregate_rewards = Some([total |-> 3])
    /\ op.slot_report.slashing_rewards.Proposer = <<>>
    /\ op.slot_report.slashing_rewards.Attester = <<2>>
    /\ op.block_rewards.total = 8
    /\ op.block_rewards.proposer_slashings = 0

\* The logs of a response that carry block number n, in the order returned.
LogsAt(v, n) ==
    LET At(l) == l.block_number[1] = "Some" /\ l.block_number[2] = n
    IN  SelectSeq(v, At)

\* The deposit events a list of well-formed logs decodes into.
Decoded(logs) == [i \in 1..Len(logs) |-> [deposit_event |-> logs[i].data]]

\* The response of the call that answered the request of task t.
Answer(t) == Select(trace[t], "ok")[1][3]

\* C21: get_deposit_events returns a map in which the events under key n are
\* exactly the decoded logs whose block number is n, in the order the logs
\* were returned; a log without a block number is skipped before it is
\* decoded, and a log with a block number that does not decode fails the
\* whole call: no map is returned.
C21_EventsGroupedByBlock ==
    \A t \in Tasks :
        (pc[t] = "done" /\ args[t][1] = "get_deposit_events"
                       /\ Count(trace[t], "ok") = 1) =>
            LET v == Answer(t)
                bad == \E i \in 1..Len(v) : /\ v[i].block_number[1] = "Some"
                                             /\ v[i].data = "malformed"
            IN  /\ bad => result[t] = Err("DepositEventError")
                /\ ~bad =>
                     /\ result[t][1] = "Ok"
                     /\ DOMAIN result[t][2] = {n \in BlockNumbers : LogsAt(v, n) # <<>>}
                     /\ \A n \in DOMAIN result[t][2] :
                           result[t][2][n] = Decoded(LogsAt(v, n))

\* A log of block 2 follows a log without a block number that would not
\* decode: the map holds the event of the second log alone.
C21_Witness ==
    \E t \in Tasks :
        /\ pc[t] = "done" /\ args[t][1] = "get_deposit_events"
        /\ Count(trace[t], "ok") = 1
        /\ Len(Answer(t)) = 2
        /\ Answer(t)[1] = [block_number |-> <<"None">>, data |-> "malformed"]
        /\ Answer(t)[2] = [block_number |-> <<"Some", 2>>, data |-> "deposit2"]
        /\ result[t] = Ok((2 :> <<[deposit_event |-> "deposit2"]>>))

\* get_blocks of task t has returned.
GetBlocksReturned(t) ==
    pc[t] = "done" /\ args[t][1] = "get_blocks" /\ args[t][2].stage = "returned"

\* The block numbers of a range whose block the execution node had.
Present(a) ==
    {n \in a.range[1]..a.range[2] : a.history[n - a.range[1] + 2][2][1] = "Some"}

\* C22: get_blocks returns, by increasing block number, one block for each
\* number of the range whose block exists, each with exactly the deposit
\* events of its own number (none if there are none); missing blocks are
\* passed over and their events dropped; a failure of any one of the queries
\* fails the whole call.
C22_BlocksWithTheirEvents ==
    \A t \in Tasks :
        GetBlocksReturned(t) =>
            LET a == args[t][2]
                h == a.history
                blocks == result[t][2]
            IN  /\ h # <<>>
                /\ \A i \in 1..(Len(h) - 1) : h[i][1] = "Ok"
                /\ h[Len(h)][1] = "Err" => result[t] = h[Len(h)]
                /\ h[Len(h)][1] = "Ok" =>
                     /\ Len(h) = a.range[2] - a.range[1] + 2
                     /\ result[t][1] = "Ok"
                     /\ Len(blocks) = Cardinality(Present(a))
                     /\ {blocks[i].block_number : i \in 1..Len(blocks)} = Present(a)
                     /\ \A i \in 1..(Len(blocks) - 1) :
                           blocks[i].block_number < blocks[i + 1].block_number
                     /\ \A i \in 1..Len(blocks) :
                           LET n == blocks[i].block_number
                           IN  /\ blocks[i].eth1_block
                                     = h[n - a.range[1] + 2][2][2].eth1_block
                               /\ blocks[i].deposit_events =
                                     IF n \in DOMAIN h[1][2] THEN h[1][2][n] ELSE <<>>

\* Blocks 1 and 2 both have deposit events, block 1 is missing: the block of
\* number 2 is returned alone, with the events of number 2.
C22_Witness ==
    \E t \in Tasks :
        /\ GetBlocksReturned(t)
        /\ args[t][2].range = <<1, 2>>
        /\ Len(args[t][2].history) = 3
        /\ DOMAIN args[t][2].history[1][2] = {1, 2}
        /\ args[t][2].history[2] = Ok(<<"None">>)
        /\ result[t] = Ok(<<[eth1_block |-> "block1", block_number |-> 2,
                             deposit_events |-> args[t][2].history[1][2][2]]>>)

\* C23: in every reachable state, under any interleaving of concurrent
\* requests and of their advance and reset steps, the cursor is a contiguous
\* suffix of `original`; `original` never changes after construction.
C23_CursorIsSuffix == []IsSuffix(endpoints, original) /\ [][original' = original]_vars

\* Two requests that ran at the same time have both advanced the cursor of a
\* two-endpoint client, which is now the empty suffix.
C23_Witness ==
    /\ Len(original) = 2 /\ endpoints = <<>>
    /\ \A t \in Tasks : InProgress(t) /\ Count(trace[t], "next") >= 1

\* The warning of the last failed call of a trace: its third slot is what
\* peek_next_endpoint returned.
LastWarn(tr) == Select(tr, "warn")[Count(tr, "warn")]

\* What each of the four cursor operations returns and does to the cursor.
C24_PoolStep ==
    \A t \in Tasks :
        /\ Moves(t, "current", "call") =>
              /\ endpoints # <<>> /\ url'[t] = endpoints[1]
              /\ endpoints' = endpoints
        /\ Moves(t, "current", "reset") => endpoints = <<>> /\ endpoints' = endpoints
        /\ Moves(t, "peek", "next") =>
              /\ endpoints' = endpoints
              /\ Len(endpoints) >= 2 => LastWarn(trace'[t])[3] = endpoints[2]
              /\ Len(endpoints) <= 1 <=> LastWarn(trace'[t])[3] = None
        /\ Moves(t, "next", "current") =>
              /\ endpoints # <<>> => endpoints' = Tail(endpoints)
              /\ Len(endpoints) <= 1 => endpoints' = <<>>
        /\ Moves(t, "reset", "done") =>
              /\ endpoints' = original
              /\ original # <<>> => endpoints'[1] = original[1]

\* C24: current() and peek_next() return the first and the second element of
\* the cursor and leave it as it is; after reset, current is original[0] if
\* original is not empty; advance on the last remaining element leaves
\* current absent; peek_next is absent exactly when advance would exhaust the
\* pool.
C24_PoolOperations == [][C24_PoolStep]_vars

\* The call to the last endpoint left has failed: the peek returned nothing,
\* the advance has emptied the cursor, and current is absent.
C24_Witness ==
    \E t \in Tasks :
        /\ pc[t] = "current" /\ Count(trace[t], "next") >= 1
        /\ original # <<>> /\ endpoints = <<>>
        /\ LastWarn(trace[t])[3] = None
        /\ trace[t][Len(trace[t])][1] = "next"

\* The events of a trace from its last call on.
SinceLastCall(tr) ==
    LET i == CHOOSE k \in 1..Len(tr) :
                /\ tr[k][1] = "call"
                /\ \A j \in (k + 1)..Len(tr) : tr[j][1] # "call"
    IN  SubSeq(tr, i + 1, Len(tr))

\* The kinds of the events of a trace.
Kinds(tr) == [i \in 1..Len(tr) |-> tr[i][1]]

\* A result is returned with its telemetry sent.
C25_OrderState ==
    \A t \in Tasks :
        (pc[t] = "done" /\ Count(trace[t], "ok") = 1) =>
            Kinds(SinceLastCall(trace[t])) =
                <<"ok">> \o (IF eth1_api_to_metrics_tx THEN <<"telemetry">> ELSE <<>>)

\* The cursor is advanced after the counter, the peek and the telemetry.
C25_OrderStep ==
    \A t \in Tasks :
        Moves(t, "next", "current") =>
            /\ Kinds(SinceLastCall(trace[t])) =
                  <<"err">> \o (IF metrics THEN <<"inc_errors">> ELSE <<>>)
                  \o <<"warn">>
                  \o (IF eth1_api_to_metrics_tx THEN <<"telemetry">> ELSE <<>>)
            /\ Kinds(SinceLastCall(trace'[t])) =
                  Kinds(SinceLastCall(trace[t])) \o <<"next">>
            /\ eth1_api_errors_count' = eth1_api_errors_count

\* C25: within one request, on success the connectivity telemetry is sent
\* before the result is returned; on failure the error counter is incremented,
\* the next endpoint is peeked at and the error telemetry is sent, all before
\* the cursor is advanced.
C25_StepsOrdered == []C25_OrderState /\ [][C25_OrderStep]_vars

\* A request has failed on one endpoint, with all of the steps of the error
\* path, and has then been answered by the next one.
C25_Witness ==
    \E t \in Tasks :
        /\ metrics /\ eth1_api_to_metrics_tx
        /\ pc[t] = "done"
        /\ Kinds(trace[t]) = <<"call", "err", "inc_errors", "warn", "telemetry", "next",
                               "call", "ok", "telemetry">>

\* C30: with an `original` that is not empty, and no request cancelled, the
\* cursor is not empty in any state in which no request_with_fallback is in
\* progress, whatever the number of requests running at the same time and the
\* interleaving of their steps.
C30_CursorPresentAtRest ==
    (original # <<>> /\ \A t \in Tasks : ~InProgress(t)) => endpoints # <<>>

\* Two requests that ran at the same time have both exhausted the cursor; none
\* is in progress any more and the cursor holds the whole pool again.
C30_Witness ==
    /\ original # <<>> /\ endpoints = original
    /\ \A t \in Tasks : /\ Returned(t, "EndpointsExhausted")
                         /\ ~alone[t]
                         /\ Count(trace[t], "next") >= 1

\* The window is the tail of the samples, in their order, and kept with its sum.
C28_FifoState ==
    /\ Len(Samples) = n_updates
    /\ IsSuffix(times, Samples)
    /\ total = Sum(times)
    /\ Samples # <<>> => times # <<>> /\ last = Some(Samples[Len(Samples)])

\* An update of a window at capacity drops the oldest sample and its value.
C28_FifoStep ==
    n_updates' = n_updates + 1 =>
        LET duration == Samples'[Len(Samples')]
        IN  IF Len(times) >= max_size /\ times # <<>>
            THEN /\ times' = Append(Tail(times), duration)
                 /\ total' = total - times[1] + duration
            ELSE /\ times' = Append(times, duration)
                 /\ total' = total + duration

\* C28: TimingMetrics inserts first in, first out: when the window is at
\* capacity, update removes the oldest sample before it adds the new one, and
\* total goes down by the value removed and up by the new one; the window
\* holds the most recent samples in the order of insertion and last() is the
\* sample of the most recent update.
C28_Fifo == []C28_FifoState /\ [][C28_FifoStep]_vars

\* A window of capacity 2 after three updates: the first sample has left.
C28_Witness ==
    /\ max_size = 2 /\ Samples = <<1, 2, 3>>
    /\ times = <<2, 3>> /\ total = 5 /\ last = Some(3)

\* The fixed names under which the operations record their durations.
MethodNames ==
    WithReportNames \cup {"perform_state_transition", "validate_block_for_gossip", "validate_block"}

\* The last step was an operation of the Block Processor.
Operation_done == op.name \in MethodNames

\* The number of metrics guards alive at step i of an operation.
GuardsAt(steps, i) ==
    Cardinality({j \in 1..i : steps[j] = "metrics.lock"})
    - Cardinality({j \in 1..(i - 1) : steps[j] = "metrics.unlock"})

\* The names updated under the metrics lock, in order.
UpdatedUnderLock(steps) ==
    LET at == {i \in 2..Len(steps) : steps[i - 1] = "metrics.lock"}
        RECURSIVE From(_)
        From(i) == IF i > Len(steps) THEN <<>>
                   ELSE IF i \in at THEN <<steps[i]>> \o From(i + 1)
                   ELSE From(i + 1)
    IN  From(1)

\* The last validate_block reached perform_state_transition.
ReachedTransition ==
    /\ Validate_done
    /\ \E i \in 1..Len(op.transitions) : op.transitions[i] = "perform_state_transition"

\* An operation takes the metrics lock only to update the entry of a method
\* name, once for itself after everything else and, in a validate_block that
\* reaches the transition, once before for perform_state_transition.
C29_RecordState ==
    Operation_done =>
        /\ op.recorded = IF ReachedTransition
                          THEN <<"perform_state_transition", "validate_block">>
                          ELSE <<op.name>>
        /\ UpdatedUnderLock(op.steps) = op.recorded
        /\ Len(op.steps) >= 3
        /\ SubSeq(op.steps, Len(op.steps) - 2, Len(op.steps))
               = <<"metrics.lock", op.name, "metrics.unlock">>
        /\ \A i \in 1..Len(op.steps) :
              /\ GuardsAt(op.steps, i) \in {0, 1}
              /\ op.steps[i] \in {"metrics.lock", "metrics.unlock"}
                 \/ (GuardsAt(op.steps, i) = 1 <=> op.steps[i] \in MethodNames)

\* An operation adds one duration to the window of each name it records and
\* leaves the other windows alone, whatever its result.
C29_RecordStep ==
    n_operations' = n_operations + 1 =>
        /\ DOMAIN timing_metrics' \subseteq MethodNames
        /\ \A name \in MethodNames :
              Recorded(timing_metrics', name) =
                  Recorded(timing_metrics, name)
                  + Cardinality({i \in 1..Len(op'.recorded) : op'.recorded[i] = name})

WasCancelled(t) == pc[t] = "done" /\ result[t] = Cancelled

\* After a cancellation the cursor is where the call found it, and the
\* counters and the telemetry of the request are those of its earlier calls.
C27_CancelState ==
    \A t \in DispatchTasks :
        WasCancelled(t) =>
            /\ Len(trace[t]) >= 2
            /\ trace[t][Len(trace[t])] = Event("cancel", url[t], None)
            /\ trace[t][Len(trace[t]) - 1] = Event("call", url[t], CursorIndex)
            /\ current_endpoint = url[t]
            /\ Count(trace[t], "err") = Count(trace[t], "call") - 1
            /\ Count(trace[t], "inc_errors") = (IF metrics THEN Count(trace[t], "err") ELSE 0)
            /\ Count(trace[t], "telemetry") =
                  (IF eth1_api_to_metrics_tx THEN Count(trace[t], "err") ELSE 0)
            /\ Count(trace[t], "ok") = 0
            /\ Count(trace[t], "reset") = 0

\* Issuing a call and dropping it change neither the cursor nor the counters
\* nor the telemetry sent.
C27_CancelStep ==
    \A t \in DispatchTasks :
        (\/ pc[t] = "current" /\ pc'[t] = "call"
         \/ pc[t] = "call" /\ pc'[t] = "call"
         \/ pc[t] = "call" /\ result'[t] = Cancelled) =>
            /\ UNCHANGED <<endpoints, eth1_api_errors_count, eth1_api_reset_count>>
            /\ Select(trace'[t], "telemetry") = Select(trace[t], "telemetry")

\* C27: when the task awaiting a request is cancelled while its HTTP call is
\* in flight, the call mutates no persistent state: the endpoint cursor, the
\* error and reset counters and the telemetry emitted are as they were just
\* before the call was issued.
C27_CancelledCallLeavesNoTrace == []C27_CancelState /\ [][C27_CancelStep]_vars

\* A request cancelled during its second call, after the first endpoint
\* failed: one error counted, the cursor on the second endpoint.
C27_Witness ==
    /\ WasCancelled("t1")
    /\ metrics
    /\ eth1_api_to_metrics_tx
    /\ Len(original) = 2
    /\ Kinds(trace["t1"]) = <<"call", "err", "inc_errors", "warn", "telemetry", "next",
                              "call", "cancel">>
    /\ CursorIndex = 2
    /\ eth1_api_errors_count = 1
    /\ eth1_api_reset_count = 0

\* The lock is held only by a task at a cursor operation, which can complete
\* the operation at once; a task waiting for the lock waits for such a task,
\* never for a call in flight.
C26_LockState ==
    /\ endpoints_locked_by \in Tasks \cup {None}
    /\ \A t \in Tasks :
          /\ pc[t] = "call" => endpoints_locked_by # t
          /\ endpoints_locked_by = t => pc[t] \in CursorSteps /\ ENABLED GuardedStep(t)
          /\ (pc[t] \in CursorSteps /\ endpoints_locked_by # t) =>
                IF endpoints_locked_by = None
                THEN ENABLED LockEndpoints(t)
                ELSE /\ pc[endpoints_locked_by] # "call"
                     /\ ENABLED GuardedStep(endpoints_locked_by)

\* The holder of the lock releases it with its one operation, and the cursor
\* changes under the lock only.
C26_LockStep ==
    /\ \A t \in Tasks :
          (endpoints_locked_by = t /\ pc'[t] # pc[t]) =>
              /\ endpoints_locked_by' = None
              /\ pc[t] \in CursorSteps
    /\ endpoints' # endpoints => endpoints_locked_by \in Tasks /\ endpoints_locked_by' = None

\* C26: each of the four cursor operations acquires the cursor lock, performs
\* its single action and releases the lock; no request holds the lock while a
\* network call is in flight, so a concurrent request is never blocked on the
\* lock for the duration of another request's HTTP call, and the lock cannot
\* deadlock.
C26_LockNeverHeldAcrossCall == []C26_LockState /\ [][C26_LockStep]_vars

\* One request has its call in flight while the other holds the lock to
\* advance the cursor.
C26_Witness ==
    /\ pc["t1"] = "call"
    /\ pc["t2"] = "next"
    /\ endpoints_locked_by = "t2"

\* The request of task t has called some endpoint more than once.
CalledAgain(t) ==
    \E i, j \in 1..Count(trace[t], "call") : i < j /\ CallUrls(trace[t])[i] = CallUrls(trace[t])[j]

\* C31: if every call issued completes, with success or failure, every
\* invocation of request_with_fallback returns, for any finite number of
\* concurrent requests sharing the cursor, even though a concurrent reset can
\* make a request attempt an endpoint again.
C31_RequestsReturn == \A t \in Tasks : InProgress(t) ~> pc[t] = "done"

\* A request has returned after it called an endpoint twice, the cursor
\* having been reset by the other request in between.
C31_Witness ==
    /\ pc["t1"] = "done"
    /\ CalledAgain("t1")
    /\ ~alone["t1"]

\* A request that returned the error of the headers or of building the call
\* issued no call for the endpoint it found: every call in its trace failed
\* and was followed by the advance of the cursor.
C32_HeadersState ==
    \A t \in DispatchTasks :
        Returned(t, "HeadersError") =>
            /\ result[t] = Err("HeadersError")
            /\ url[t] = current_endpoint
            /\ Count(trace[t], "call") = Count(trace[t], "err")
            /\ Count(trace[t], "call") = Count(trace[t], "next")
            /\ Count(trace[t], "ok") = 0
            /\ Count(trace[t], "reset") = 0
            /\ trace[t] # <<>> => trace[t][Len(trace[t])][1] = "next"

\* The step that returns the error changes neither the cursor nor a counter
\* and records no call and no telemetry.
C32_HeadersStep ==
    \A t \in DispatchTasks :
        (pc[t] = "current" /\ Returned(t, "HeadersError")') =>
            /\ UNCHANGED <<endpoints, eth1_api_errors_count, eth1_api_reset_count>>
            /\ trace'[t] = trace[t]

\* C32: if producing the authorization headers or building the call fails for
\* the current endpoint, request_with_fallback returns that error at once: no
\* HTTP request is issued, the cursor is neither advanced nor reset, neither
\* counter is incremented and no telemetry is emitted.
C32_HeadersErrorReturnsAtOnce == []C32_HeadersState /\ [][C32_HeadersStep]_vars

\* The headers fail for the second endpoint after the call to the first one
\* failed: one error is counted, the cursor stays on the second endpoint.
C32_Witness ==
    /\ Returned("t1", "HeadersError")
    /\ metrics
    /\ eth1_api_to_metrics_tx
    /\ Len(original) = 2
    /\ Kinds(trace["t1"]) = <<"call", "err", "inc_errors", "warn", "telemetry", "next">>
    /\ CursorIndex = 2
    /\ url["t1"] = original[2]
    /\ eth1_api_errors_count = 1
    /\ eth1_api_reset_count = 0

\* The operation made last stored what it computed in the cache.
StoredByOp == WithReport_done /\ ~op.hit /\ ~op.failed

\* Every with-report operation asks for (root, slot, false), with or without
\* the randao check.
C33_SharedKeyState ==
    WithReport_done =>
        /\ Len(op.queries) = 1
        /\ op.queries[1] = <<HashTreeRoot(op.block), op.block.slot, FALSE>>
        /\ op.hit => op.transitions = <<>>

\* An untrusted operation with the randao check, made for the block of an
\* entry that a trusted operation or one without the check has just stored,
\* returns that entry and runs no transition.
C33_SharedKeyStep ==
    (/\ StoredByOp
     /\ op.name \in {"process_trusted_block", "process_trusted_blinded_block"}
        \/ op.skip_randao_verification
     /\ op'.name \in {"process_untrusted_block", "process_untrusted_blinded_block"}
     /\ n_operations' = n_operations + 1
     /\ ~op'.skip_randao_verification
     /\ op'.block = op.block) =>
        /\ op'.hit
        /\ op'.transitions = <<>>
        /\ op'.result = op.result
        /\ state_cache' = state_cache

\* C33: process_untrusted_block_with_report and
\* process_trusted_block_with_report, and likewise the two blinded variants,
\* ask the cache with the same key (block hash-tree-root, block slot, flag
\* false), of which skip_randao_verification is no part; once the cache holds
\* an entry stored under that key by the trusted variant or with
\* skip_randao_verification = true, a later untrusted call with
\* skip_randao_verification = false for the same block returns that entry
\* without running the untrusted state transition.
C33_UntrustedServedFromSharedEntry == []C33_SharedKeyState /\ [][C33_SharedKeyStep]_vars

\* The trusted operation stored an entry, and the untrusted operation with
\* the randao check was served from it.
C33_Witness ==
    /\ n_operations = 2
    /\ op.name = "process_untrusted_block"
    /\ ~op.skip_randao_verification
    /\ op.hit
    /\ op.transitions = <<>>
    /\ op.result[1] = "Ok"
    /\ Recorded(timing_metrics, "process_trusted_block") = 1
    /\ Recorded(timing_metrics, "process_untrusted_block") = 1

====
